---- MODULE Spec2Model ----
(***************************************************************************)
(* Model of the conversational token workflow of make-it-public-tgbot:     *)
(* the questionnaire (pkg/core/conv/questions.go), the conversation state  *)
(* machine (pkg/core/conv/conv.go), the repository of keys and             *)
(* conversations (pkg/repo/user.go) and the orchestrator (pkg/core).       *)
(*                                                                         *)
(* Strings are TLA+ strings; Len, SubSeq and \o act on them as Go's len,   *)
(* slicing and + act on ASCII strings.  The texts sent to the user are     *)
(* those of the code without their emoji.                                  *)
(*                                                                         *)
(* One orchestrator call is one action.  Its run is computed as a record  *)
(* that carries, next to the state it leaves, the collaborator calls it    *)
(* made, in order, and what it returned.  A collaborator failure is the    *)
(* choice of failAt: the failAt-th collaborator call of the run returns    *)
(* an error.                                                               *)
(***************************************************************************)
EXTENDS Integers, Sequences, FiniteSets, TLC

VARIABLES convs,     \* repository: user -> stored conversation (JSON) or NoConv
          keys,      \* repository: user -> live keys, in listing (score) order
          provKeys,  \* provider: the key ids that are live upstream
          subject    \* the value the operations of package conv are applied
                     \* to where they are checked on their own

vars == <<convs, keys, provKeys, subject>>

----------------------------------------------------------------------------
(* Bounds *)

Users == {"u1"}

\* the ids the provider can issue; two share their first 8 characters
KeyIDPool == {"abcdefgh01", "abcdefgh02", "zyxwvuts03"}

\* the users of the model choose among the first MaxExpirationChoices
\* expiration answers
MaxExpirationChoices == 1

\* the key ids a field is encoded from have at most MaxIDLen characters
MaxIDLen == 3

\* the key lists a selection question is built from have at most
\* MaxSelectionKeys keys
MaxSelectionKeys == 3

\* the updates the transport receives in one behaviour
MaxRequests == 2

\* the questionnaires package conv is run on have at most MaxQuestions
\* questions
MaxQuestions == 4

----------------------------------------------------------------------------
(* Program constants *)

maxWebTokensPerUser == 3
maxTCPTokensPerUser == 1
keyIDDisplayLen == 8
secondsInDay == 86400

TokenTypeWeb == "web"
TokenTypeTCP == "tcp"
TokenTypes == {TokenTypeWeb, TokenTypeTCP}

StateIdle == "idle"
StateComplete == "complete"
StateSelectTokenType == "selectTokenType"
StateTokenRegenerate == "tokenRegenerate"
StateTokenExists == "tokenExists"
StateNewToken == "newToken"
StateSelectTokenToRegenerate == "selectTokenToRegenerate"
StateSelectTokenToRevoke == "selectTokenToRevoke"

ErrIsNotComplete == "conversation is not complete"
ErrNoMoreQuestions == "no more questions"
ErrQuestionnaireIncomplete == "questionnaire is incomplete"
ErrInvalidAnswer == "invalid answer"
ErrTokenNotFound == "token not found"
ErrInvalidExpirationPeriod == "invalid expiration period selected"
ErrKeyNotFound == "selected key not found"
ErrCollaborator == "collaborator error"

ExpirationAnswers == <<"1 day", "7 days", "30 days", "90 days">>

ExpirationChoices ==
    {ExpirationAnswers[i] : i \in 1..(IF MaxExpirationChoices < 4 THEN MaxExpirationChoices ELSE 4)}

----------------------------------------------------------------------------
(* Strings *)

SeqToSet(s) == {s[i] : i \in 1..Len(s)}

\* s[:n] of Go, for n <= len(s)
Prefix(s, n) == SubSeq(s, 1, n)

\* strings.Index(s, ch) + 1 for a one-character ch, 0 when absent
IndexOf(s, ch) ==
    LET hits == {i \in 1..Len(s) : SubSeq(s, i, i) = ch}
    IN IF hits = {} THEN 0 ELSE CHOOSE i \in hits : \A j \in hits : i <= j

----------------------------------------------------------------------------
(* Questionnaire: pkg/core/conv/questions.go *)

\* the hidden context a question carries into its question/answer pair
questionField(q) == q.Field

NewQuestions(questions) ==
    [QAPairs |-> [i \in 1..Len(questions) |->
                    [Question |-> questions[i],
                     Answer |-> "",
                     Field |-> questionField(questions[i])]],
     Position |-> 0]

\* Position is 0-based in the code; QAPairs[Position + 1] is the Go element
\* QAPairs[Position]
GetQuestion(f) ==
    IF f.Position >= Len(f.QAPairs)
    THEN [ok |-> FALSE, err |-> ErrNoMoreQuestions]
    ELSE [ok |-> TRUE, err |-> "", q |-> f.QAPairs[f.Position + 1].Question]

\* ProcessAnswer reporting done one question early
ProcessAnswerDoneEarly(f, answer) ==
    IF f.Position >= Len(f.QAPairs)
    THEN [f |-> f, done |-> FALSE, err |-> ErrNoMoreQuestions]
    ELSE LET answers == f.QAPairs[f.Position + 1].Question.Answers
         IN IF \E i \in 1..Len(answers) : answers[i] = answer
            THEN LET g == [f EXCEPT !.QAPairs[f.Position + 1].Answer = answer,
                                    !.Position = f.Position + 1]
                 IN [f |-> g, done |-> g.Position + 1 >= Len(g.QAPairs), err |-> ""]
            ELSE [f |-> f, done |-> FALSE, err |-> ErrInvalidAnswer]

\* ProcessAnswer recording an answer before it has validated it
ProcessAnswerRecordsInvalid(f, answer) ==
    IF f.Position >= Len(f.QAPairs)
    THEN [f |-> f, done |-> FALSE, err |-> ErrNoMoreQuestions]
    ELSE LET answers == f.QAPairs[f.Position + 1].Question.Answers
             h == [f EXCEPT !.QAPairs[f.Position + 1].Answer = answer]
         IN IF \E i \in 1..Len(answers) : answers[i] = answer
            THEN LET g == [h EXCEPT !.Position = f.Position + 1]
                 IN [f |-> g, done |-> g.Position >= Len(g.QAPairs), err |-> ""]
            ELSE [f |-> h, done |-> FALSE, err |-> ErrInvalidAnswer]

\* ProcessAnswer advancing the cursor without recording the answer
ProcessAnswerNoRecord(f, answer) ==
    IF f.Position >= Len(f.QAPairs)
    THEN [f |-> f, done |-> FALSE, err |-> ErrNoMoreQuestions]
    ELSE LET answers == f.QAPairs[f.Position + 1].Question.Answers
         IN IF \E i \in 1..Len(answers) : answers[i] = answer
            THEN LET g == [f EXCEPT !.Position = f.Position + 1]
                 IN [f |-> g, done |-> g.Position >= Len(g.QAPairs), err |-> ""]
            ELSE [f |-> f, done |-> FALSE, err |-> ErrInvalidAnswer]

\* ProcessAnswer recording the answer and leaving the cursor where it is
ProcessAnswerNoAdvance(f, answer) ==
    IF f.Position >= Len(f.QAPairs)
    THEN [f |-> f, done |-> FALSE, err |-> ErrNoMoreQuestions]
    ELSE LET answers == f.QAPairs[f.Position + 1].Question.Answers
         IN IF \E i \in 1..Len(answers) : answers[i] = answer
            THEN LET g == [f EXCEPT !.QAPairs[f.Position + 1].Answer = answer]
                 IN [f |-> g, done |-> g.Position >= Len(g.QAPairs), err |-> ""]
            ELSE [f |-> f, done |-> FALSE, err |-> ErrInvalidAnswer]

ProcessAnswer(f, answer) ==
    IF f.Position >= Len(f.QAPairs)
    THEN [f |-> f, done |-> FALSE, err |-> ErrNoMoreQuestions]
    ELSE LET answers == f.QAPairs[f.Position + 1].Question.Answers
         IN IF \E i \in 1..Len(answers) : answers[i] = answer
            THEN LET g == [f EXCEPT !.QAPairs[f.Position + 1].Answer = answer,
                                    !.Position = f.Position + 1]
                 IN [f |-> g, done |-> g.Position >= Len(g.QAPairs), err |-> ""]
            ELSE [f |-> f, done |-> FALSE, err |-> ErrInvalidAnswer]

GetResults(f) ==
    IF f.Position < Len(f.QAPairs)
    THEN [ok |-> FALSE, err |-> ErrQuestionnaireIncomplete, r |-> <<>>]
    ELSE [ok |-> TRUE, err |-> "", r |-> f.QAPairs]

----------------------------------------------------------------------------
(* Conversation: pkg/core/conv/conv.go *)

New(id) ==
    [ID |-> id, State |-> StateIdle,
     Questions |-> [QAPairs |-> <<>>, Position |-> 0]]

\* Start without the check that the conversation is Idle
StartAnyState(c, newState, questions) ==
    IF newState = StateIdle \/ newState = StateComplete
    THEN [c |-> c, err |-> "", panic |-> TRUE]
    ELSE [c |-> [c EXCEPT !.State = newState, !.Questions = questions],
          err |-> "", panic |-> FALSE]

Start(c, newState, questions) ==
    IF c.State # StateIdle
    THEN [c |-> c, err |-> "conversation is not in chat state", panic |-> FALSE]
    ELSE IF newState = StateIdle \/ newState = StateComplete
         THEN [c |-> c, err |-> "", panic |-> TRUE]
         ELSE [c |-> [c EXCEPT !.State = newState, !.Questions = questions],
               err |-> "", panic |-> FALSE]

Current(c) ==
    IF c.State = StateIdle \/ c.State = StateComplete
    THEN [ok |-> FALSE,
          err |-> "conversation is not in questions state, current state: " \o c.State]
    ELSE GetQuestion(c.Questions)

\* Submit returning the state read after the transition
SubmitReturnsNewState(c, answer) ==
    IF c.State = StateIdle \/ c.State = StateComplete
    THEN [c |-> c, state |-> "",
          err |-> "conversation is not in questions state, current state: " \o c.State]
    ELSE LET p == ProcessAnswer(c.Questions, answer)
         IN IF p.err # ""
            THEN [c |-> c, state |-> "", err |-> p.err]
            ELSE [c |-> [c EXCEPT !.Questions = p.f,
                                  !.State = IF p.done THEN StateComplete ELSE c.State],
                  state |-> IF p.done THEN StateComplete ELSE c.State, err |-> ""]

Submit(c, answer) ==
    IF c.State = StateIdle \/ c.State = StateComplete
    THEN [c |-> c, state |-> "",
          err |-> "conversation is not in questions state, current state: " \o c.State]
    ELSE LET p == ProcessAnswer(c.Questions, answer)
         IN IF p.err # ""
            THEN [c |-> c, state |-> "", err |-> p.err]
            ELSE [c |-> [c EXCEPT !.Questions = p.f,
                                  !.State = IF p.done THEN StateComplete ELSE c.State],
                  state |-> c.State, err |-> ""]

\* Results handing out the answers and leaving the state Complete
ResultsNoReset(c) ==
    IF c.State # StateComplete
    THEN [c |-> c, r |-> <<>>, err |-> ErrIsNotComplete]
    ELSE LET g == GetResults(c.Questions)
         IN IF ~g.ok
            THEN [c |-> c, r |-> <<>>,
                  err |-> "failed to get question results: " \o g.err]
            ELSE [c |-> c, r |-> g.r, err |-> ""]

Results(c) ==
    IF c.State # StateComplete
    THEN [c |-> c, r |-> <<>>, err |-> ErrIsNotComplete]
    ELSE LET g == GetResults(c.Questions)
         IN IF ~g.ok
            THEN [c |-> c, r |-> <<>>,
                  err |-> "failed to get question results: " \o g.err]
            ELSE [c |-> [c EXCEPT !.State = StateIdle], r |-> g.r, err |-> ""]

----------------------------------------------------------------------------
(* Repository: pkg/repo/user.go.  A user's keys are the members of a       *)
(* sorted set, listed by score (expiry), each member a key id with its     *)
(* token type; a key is a record [KeyID, Type, ExpiresAt].                 *)

NoConv == [ID |-> "", State |-> "none", Questions |-> [qa_pairs |-> <<>>, position |-> 0]]

\* json.Marshal of a Conversation: the field names of the json tags
Marshal(c) ==
    [ID |-> c.ID,
     State |-> c.State,
     Questions |->
        [qa_pairs |-> [i \in 1..Len(c.Questions.QAPairs) |->
            [answer |-> c.Questions.QAPairs[i].Answer,
             field |-> c.Questions.QAPairs[i].Field,
             question |-> [text |-> c.Questions.QAPairs[i].Question.Text,
                           answers |-> c.Questions.QAPairs[i].Question.Answers,
                           field |-> c.Questions.QAPairs[i].Question.Field]]],
         position |-> c.Questions.Position]]

\* json.Unmarshal leaving out the field of the question/answer pairs
UnmarshalNoField(d) ==
    [ID |-> d.ID,
     State |-> d.State,
     Questions |->
        [QAPairs |-> [i \in 1..Len(d.Questions.qa_pairs) |->
            [Question |-> [Text |-> d.Questions.qa_pairs[i].question.text,
                           Answers |-> d.Questions.qa_pairs[i].question.answers,
                           Field |-> d.Questions.qa_pairs[i].question.field],
             Answer |-> d.Questions.qa_pairs[i].answer,
             Field |-> ""]],
         Position |-> d.Questions.position]]

\* json.Unmarshal into a Conversation
Unmarshal(d) ==
    [ID |-> d.ID,
     State |-> d.State,
     Questions |->
        [QAPairs |-> [i \in 1..Len(d.Questions.qa_pairs) |->
            [Question |-> [Text |-> d.Questions.qa_pairs[i].question.text,
                           Answers |-> d.Questions.qa_pairs[i].question.answers,
                           Field |-> d.Questions.qa_pairs[i].question.field],
             Answer |-> d.Questions.qa_pairs[i].answer,
             Field |-> d.Questions.qa_pairs[i].field]],
         Position |-> d.Questions.position]]

\* GetConversation: a fresh Idle conversation when nothing is stored
GetConversation(stored, conversationID) ==
    IF stored = NoConv THEN New(conversationID) ELSE Unmarshal(stored)

SaveConversation(c) == Marshal(c)

\* the expiry date a key added with this ttl is listed with (the clock of
\* the model stands still at 2026-11-03)
expiresAt(expiresIn) ==
    CASE expiresIn = secondsInDay -> "2026-11-04"
      [] expiresIn = 7 * secondsInDay -> "2026-11-10"
      [] expiresIn = 30 * secondsInDay -> "2026-12-03"
      [] OTHER -> "2027-02-01"

RemoveAt(s, i) == SubSeq(s, 1, i - 1) \o SubSeq(s, i + 1, Len(s))

InsertAt(s, i, e) == SubSeq(s, 1, i - 1) \o <<e>> \o SubSeq(s, i, Len(s))

MemberIndex(ks, keyID, tokenType) ==
    LET hits == {i \in 1..Len(ks) : ks[i].KeyID = keyID /\ ks[i].Type = tokenType}
    IN IF hits = {} THEN 0 ELSE CHOOSE i \in hits : TRUE

\* AddAPIKey with the member prefixes of the two token types exchanged
AddAPIKeySwappedPrefix(ks, apiKeyID, tokenType, expiresIn, at) ==
    LET stored == IF tokenType = TokenTypeTCP THEN TokenTypeWeb ELSE TokenTypeTCP
        i == MemberIndex(ks, apiKeyID, stored)
        rest == IF i = 0 THEN ks ELSE RemoveAt(ks, i)
        pos == IF at > Len(rest) + 1 THEN Len(rest) + 1 ELSE at
    IN InsertAt(rest, pos, [KeyID |-> apiKeyID, Type |-> stored,
                            ExpiresAt |-> expiresAt(expiresIn)])

\* ZAdd: a new member is listed where its score puts it (position `at`
\* among the others); an existing member only gets the new score
AddAPIKey(ks, apiKeyID, tokenType, expiresIn, at) ==
    LET i == MemberIndex(ks, apiKeyID, tokenType)
        rest == IF i = 0 THEN ks ELSE RemoveAt(ks, i)
        pos == IF at > Len(rest) + 1 THEN Len(rest) + 1 ELSE at
    IN InsertAt(rest, pos, [KeyID |-> apiKeyID, Type |-> tokenType,
                            ExpiresAt |-> expiresAt(expiresIn)])

GetAPIKeys(ks) == [i \in 1..Len(ks) |-> ks[i].KeyID]

GetAPIKeysWithExpiration(ks) == ks

\* ZRem of the first candidate that is a member: web, then TCP
RepoRevokeToken(ks, apiKeyID) ==
    LET w == MemberIndex(ks, apiKeyID, TokenTypeWeb)
        t == MemberIndex(ks, apiKeyID, TokenTypeTCP)
    IN IF w # 0 THEN RemoveAt(ks, w)
       ELSE IF t # 0 THEN RemoveAt(ks, t)
       ELSE ks

----------------------------------------------------------------------------
(* Provider: the MITProv interface of pkg/core/svc.go *)

\* the token issued for a request: the provider keeps a key id it is given
\* and issues `issue` otherwise
GenerateToken(keyID, tokenType, ttl, issue) ==
    LET id == IF keyID = "" THEN issue ELSE keyID
    IN [KeyID |-> id, Token |-> "secret-" \o id, Type |-> tokenType, ExpiresIn |-> ttl]

\* the provider answering a revocation without dropping the key
ProvRevokeTokenKeeps(live, keyID) == live

ProvRevokeToken(live, keyID) == live \ {keyID}

----------------------------------------------------------------------------
(* Orchestrator: pkg/core.  The run of one orchestrator call is a record m *)
(*   u       the user                                                      *)
(*   stored  the user's stored conversation, ks the user's keys,           *)
(*   live    the provider's live key ids                                   *)
(*   calls   the collaborator calls made so far                            *)
(*   failAt  the index of the collaborator call that fails (0: none)       *)
(*   issue   the key id the provider issues for a request without one      *)
(*           ("" when it has none left), at: where a new key is listed     *)
(*   resp, err, handler, state: what the call returns, the completion      *)
(*           handler HandleMessage dispatched to and the state the leg ran *)
(*           under                                                         *)

NilResponse == [nil |-> TRUE, Message |-> "", Answers |-> <<>>]

Response(message, answers) == [nil |-> FALSE, Message |-> message, Answers |-> answers]

\* the next collaborator call; `can` is FALSE when the collaborator cannot
\* but fail
Do(m, op, key, tokenType, ttl, state, can) ==
    [m EXCEPT !.calls = Append(@, [op |-> op, key |-> key, type |-> tokenType,
                                   ttl |-> ttl, state |-> state,
                                   ok |-> can /\ Len(m.calls) + 1 # m.failAt])]

Ok(m) == m.calls[Len(m.calls)].ok

\* return nil, err; errAt is the number of collaborator calls made by then
Fail(m, e) == [m EXCEPT !.err = e, !.resp = NilResponse, !.errAt = Len(m.calls)]

Return(m, r) == [m EXCEPT !.err = "", !.resp = r]

\* "<type>|<keyID>"
encodeTokenField(tokenType, keyID) == tokenType \o "|" \o keyID

\* decodeTokenField splitting on the last "|"
decodeTokenFieldLastSeparator(field) ==
    LET hits == {i \in 1..Len(field) : SubSeq(field, i, i) = "|"}
        i == IF hits = {} THEN 0 ELSE CHOOSE k \in hits : \A j \in hits : j <= k
    IN IF i = 0
       THEN [Type |-> TokenTypeWeb, KeyID |-> field]
       ELSE [Type |-> SubSeq(field, 1, i - 1), KeyID |-> SubSeq(field, i + 1, Len(field))]

\* split on the first "|"; a string without separator is a bare key id of
\* a web token
decodeTokenField(field) ==
    LET i == IndexOf(field, "|")
    IN IF i = 0
       THEN [Type |-> TokenTypeWeb, KeyID |-> field]
       ELSE [Type |-> SubSeq(field, 1, i - 1), KeyID |-> SubSeq(field, i + 1, Len(field))]

maxTokensForType(tokenType) ==
    IF tokenType = TokenTypeTCP THEN maxTCPTokensPerUser ELSE maxWebTokensPerUser

\* the keys of one token type, in listing order
RECURSIVE filterKeysByType(_, _)
filterKeysByType(ks, tokenType) ==
    IF ks = <<>> THEN <<>>
    ELSE (IF Head(ks).Type = tokenType THEN <<Head(ks)>> ELSE <<>>)
         \o filterKeysByType(Tail(ks), tokenType)

\* parseExpirationAnswer taking a period it does not know for one day
parseExpirationAnswerDefaultDay(answers) ==
    IF Len(answers) = 0
    THEN [expiresIn |-> 0,
          err |-> "expected at least one answer for expiration question, got 0"]
    ELSE CASE answers[1].Answer = "7 days" -> [expiresIn |-> 7 * secondsInDay, err |-> ""]
           [] answers[1].Answer = "30 days" -> [expiresIn |-> 30 * secondsInDay, err |-> ""]
           [] answers[1].Answer = "90 days" -> [expiresIn |-> 90 * secondsInDay, err |-> ""]
           [] OTHER -> [expiresIn |-> secondsInDay, err |-> ""]

parseExpirationAnswer(answers) ==
    IF Len(answers) = 0
    THEN [expiresIn |-> 0,
          err |-> "expected at least one answer for expiration question, got 0"]
    ELSE CASE answers[1].Answer = "1 day" -> [expiresIn |-> secondsInDay, err |-> ""]
           [] answers[1].Answer = "7 days" -> [expiresIn |-> 7 * secondsInDay, err |-> ""]
           [] answers[1].Answer = "30 days" -> [expiresIn |-> 30 * secondsInDay, err |-> ""]
           [] answers[1].Answer = "90 days" -> [expiresIn |-> 90 * secondsInDay, err |-> ""]
           [] OTHER -> [expiresIn |-> 0, err |-> ErrInvalidExpirationPeriod]

buildTokenSelectionQuestion(ks, questionText) ==
    [Text |-> questionText,
     Answers |-> [i \in 1..Len(ks) |->
        (IF Len(ks[i].KeyID) > keyIDDisplayLen
         THEN Prefix(ks[i].KeyID, keyIDDisplayLen)
         ELSE ks[i].KeyID) \o " (exp: " \o ks[i].ExpiresAt \o ")"],
     Field |-> ""]

\* resolveKeyIDFromPrefix returning the last key that matches
RECURSIVE resolveKeyIDFromPrefixLast(_, _)
resolveKeyIDFromPrefixLast(ids, buttonText) ==
    IF ids = <<>> THEN [keyID |-> "", err |-> ErrKeyNotFound]
    ELSE LET k == Head(ids)
             prefix == IF Len(k) > keyIDDisplayLen THEN Prefix(k, keyIDDisplayLen) ELSE k
             later == resolveKeyIDFromPrefixLast(Tail(ids), buttonText)
         IN IF later.err = "" THEN later
            ELSE IF Len(buttonText) >= keyIDDisplayLen
                    /\ Prefix(buttonText, keyIDDisplayLen) = prefix
            THEN [keyID |-> k, err |-> ""]
            ELSE later

RECURSIVE resolveKeyIDFromPrefix(_, _)
resolveKeyIDFromPrefix(ids, buttonText) ==
    IF ids = <<>> THEN [keyID |-> "", err |-> ErrKeyNotFound]
    ELSE LET k == Head(ids)
             prefix == IF Len(k) > keyIDDisplayLen THEN Prefix(k, keyIDDisplayLen) ELSE k
         IN IF Len(buttonText) >= keyIDDisplayLen
               /\ Prefix(buttonText, keyIDDisplayLen) = prefix
            THEN [keyID |-> k, err |-> ""]
            ELSE resolveKeyIDFromPrefix(Tail(ids), buttonText)

tokenCreatedMessage(token, validUntil) ==
    "Your New API Token\n\n" \o token \o "\n\nValid until: " \o validUntil
        \o "\n\nKeep this token secure and don't share it with others."

\* GetConversation, Start, Current, SaveConversation: the steps with which
\* every ask... function starts a leg of one question
startQuestions(m, state, q) ==
    LET m1 == Do(m, "repo.GetConversation", "", "", 0, "", TRUE)
    IN IF ~Ok(m1) THEN Fail(m1, "failed to get conversation: " \o ErrCollaborator)
       ELSE LET st == Start(GetConversation(m1.stored, m1.u), state, NewQuestions(<<q>>))
            IN IF st.err # "" THEN Fail(m1, "failed to start questions: " \o st.err)
               ELSE LET cur == Current(st.c)
                        m2 == Do(m1, "repo.SaveConversation", "", "", 0, st.c.State, TRUE)
                    IN IF ~Ok(m2)
                       THEN Fail(m2, "failed to save conversation: " \o ErrCollaborator)
                       ELSE Return([m2 EXCEPT !.stored = SaveConversation(st.c)],
                                   Response(cur.q.Text, cur.q.Answers))

\* askForTokenExpirationWithKeyID putting the bare key id in the field
askForTokenExpirationBareKeyID(m, state, tokenType, keyID) ==
    startQuestions(m, state,
        [Text |-> "What is the expiration period for your new API token?",
         Answers |-> ExpirationAnswers,
         Field |-> keyID])

askForTokenExpirationWithKeyID(m, state, tokenType, keyID) ==
    startQuestions(m, state,
        [Text |-> "What is the expiration period for your new API token?",
         Answers |-> ExpirationAnswers,
         Field |-> encodeTokenField(tokenType, keyID)])

askToRegenerateToken(m, tokenType) ==
    startQuestions(m, StateTokenExists,
        [Text |-> IF tokenType = TokenTypeTCP
                  THEN "You've reached the maximum of " \o ToString(maxTCPTokensPerUser)
                       \o " TCP token. Do you want to regenerate it?"
                  ELSE "You've reached the maximum of " \o ToString(maxWebTokensPerUser)
                       \o " web tokens. Do you want to regenerate an existing one?",
         Answers |-> <<"Yes", "No">>,
         Field |-> tokenType])

askToSelectTokenForRegeneration(m, tokenType, ks) ==
    startQuestions(m, StateSelectTokenToRegenerate,
        [buildTokenSelectionQuestion(ks, "Which token do you want to regenerate?")
            EXCEPT !.Field = tokenType])

\* CreateToken asking for the expiration period without asking for a type
CreateTokenAsksExpiration(m) ==
    askForTokenExpirationWithKeyID(m, StateNewToken, TokenTypeWeb, "")

\* CreateToken: the select-type question, asked whatever keys the user holds
CreateToken(m) ==
    startQuestions(m, StateSelectTokenType,
        [Text |-> "What type of token do you want to create?",
         Answers |-> <<"Web", "TCP">>,
         Field |-> ""])

\* revokeKeyByID putting the key back at the provider when the repository
\* fails to remove it
revokeKeyByIDCompensate(m, keyID) ==
    LET m1 == Do(m, "prov.RevokeToken", keyID, "", 0, "", TRUE)
    IN IF ~Ok(m1) THEN Fail(m1, "failed to revoke token: " \o ErrCollaborator)
       ELSE LET m2 == Do([m1 EXCEPT !.live = ProvRevokeToken(@, keyID)],
                         "repo.RevokeToken", keyID, "", 0, "", TRUE)
            IN IF ~Ok(m2)
               THEN LET m3 == Do(m2, "prov.GenerateToken", keyID, "", 0, "", TRUE)
                    IN [Fail(m2, "failed to remove API key from repository: "
                                 \o ErrCollaborator)
                        EXCEPT !.calls = m3.calls, !.live = @ \cup {keyID}]
               ELSE Return([m2 EXCEPT !.ks = RepoRevokeToken(@, keyID)], NilResponse)

\* provider.RevokeToken, then repository.RevokeToken
revokeKeyByID(m, keyID) ==
    LET m1 == Do(m, "prov.RevokeToken", keyID, "", 0, "", TRUE)
    IN IF ~Ok(m1) THEN Fail(m1, "failed to revoke token: " \o ErrCollaborator)
       ELSE LET m2 == Do([m1 EXCEPT !.live = ProvRevokeToken(@, keyID)],
                         "repo.RevokeToken", keyID, "", 0, "", TRUE)
            IN IF ~Ok(m2)
               THEN Fail(m2, "failed to remove API key from repository: " \o ErrCollaborator)
               ELSE Return([m2 EXCEPT !.ks = RepoRevokeToken(@, keyID)], NilResponse)

\* generateAndStore recording the key id of the request, not of the token
generateAndStoreRequestedID(m, keyID, tokenType, expiresIn) ==
    LET m1 == Do(m, "prov.GenerateToken", keyID, tokenType, expiresIn, "",
                 keyID # "" \/ m.issue # "")
    IN IF ~Ok(m1) THEN Fail(m1, "failed to generate token: " \o ErrCollaborator)
       ELSE LET token == GenerateToken(keyID, tokenType, expiresIn, m1.issue)
                m2 == Do([m1 EXCEPT !.live = @ \cup {token.KeyID}],
                         "repo.AddAPIKey", keyID, tokenType, token.ExpiresIn, "", TRUE)
            IN IF ~Ok(m2) THEN Fail(m2, "failed to add API key: " \o ErrCollaborator)
               ELSE Return([m2 EXCEPT !.ks = AddAPIKey(@, keyID, tokenType,
                                                       token.ExpiresIn, m2.at)],
                           Response(tokenCreatedMessage(token.Token,
                                                        expiresAt(token.ExpiresIn)), <<>>))

\* provider.GenerateToken, then repository.AddAPIKey, then the token message
generateAndStore(m, keyID, tokenType, expiresIn) ==
    LET m1 == Do(m, "prov.GenerateToken", keyID, tokenType, expiresIn, "",
                 keyID # "" \/ m.issue # "")
    IN IF ~Ok(m1) THEN Fail(m1, "failed to generate token: " \o ErrCollaborator)
       ELSE LET token == GenerateToken(keyID, tokenType, expiresIn, m1.issue)
                m2 == Do([m1 EXCEPT !.live = @ \cup {token.KeyID}],
                         "repo.AddAPIKey", token.KeyID, tokenType, token.ExpiresIn, "", TRUE)
            IN IF ~Ok(m2) THEN Fail(m2, "failed to add API key: " \o ErrCollaborator)
               ELSE Return([m2 EXCEPT !.ks = AddAPIKey(@, token.KeyID, tokenType,
                                                       token.ExpiresIn, m2.at)],
                           Response(tokenCreatedMessage(token.Token,
                                                        expiresAt(token.ExpiresIn)), <<>>))

handleSelectTokenTypeResult(m, answers) ==
    IF Len(answers) # 1
    THEN Fail(m, "expected exactly one answer for token type question, got "
                 \o ToString(Len(answers)))
    ELSE IF answers[1].Answer \notin {"Web", "TCP"}
    THEN Return(m, Response("Invalid token type selected. Please choose Web or TCP.", <<>>))
    ELSE LET tokenType == IF answers[1].Answer = "TCP" THEN TokenTypeTCP ELSE TokenTypeWeb
             m1 == Do(m, "repo.GetAPIKeysWithExpiration", "", "", 0, "", TRUE)
         IN IF ~Ok(m1) THEN Fail(m1, "failed to get API keys: " \o ErrCollaborator)
            ELSE IF Len(filterKeysByType(GetAPIKeysWithExpiration(m1.ks), tokenType))
                      >= maxTokensForType(tokenType)
                 THEN askToRegenerateToken(m1, tokenType)
                 ELSE askForTokenExpirationWithKeyID(m1, StateNewToken, tokenType, "")

\* handleTokenExistsResult taking every answer for a Yes
handleTokenExistsResultAlwaysYes(m, answers) ==
    IF Len(answers) # 1
    THEN Fail(m, "expected exactly one answer for tokenExists question, got "
                 \o ToString(Len(answers)))
    ELSE LET tokenType == answers[1].Field
             m1 == Do(m, "repo.GetAPIKeysWithExpiration", "", "", 0, "", TRUE)
         IN IF ~Ok(m1) THEN Fail(m1, "failed to get API keys: " \o ErrCollaborator)
            ELSE LET typed == filterKeysByType(GetAPIKeysWithExpiration(m1.ks), tokenType)
                 IN IF Len(typed) = 1
                    THEN askForTokenExpirationWithKeyID(m1, StateTokenRegenerate, tokenType,
                                                        typed[1].KeyID)
                    ELSE askToSelectTokenForRegeneration(m1, tokenType, typed)

\* handleTokenExistsResult asking for a selection whatever the number of
\* keys of the type
handleTokenExistsResultAlwaysSelect(m, answers) ==
    IF Len(answers) # 1
    THEN Fail(m, "expected exactly one answer for tokenExists question, got "
                 \o ToString(Len(answers)))
    ELSE IF answers[1].Answer = "No"
    THEN Return(m, Response("No changes made. You can continue using your existing API tokens.",
                            <<>>))
    ELSE LET tokenType == answers[1].Field
             m1 == Do(m, "repo.GetAPIKeysWithExpiration", "", "", 0, "", TRUE)
         IN IF ~Ok(m1) THEN Fail(m1, "failed to get API keys: " \o ErrCollaborator)
            ELSE askToSelectTokenForRegeneration(m1, tokenType,
                    filterKeysByType(GetAPIKeysWithExpiration(m1.ks), tokenType))

handleTokenExistsResult(m, answers) ==
    IF Len(answers) # 1
    THEN Fail(m, "expected exactly one answer for tokenExists question, got "
                 \o ToString(Len(answers)))
    ELSE IF answers[1].Answer = "No"
    THEN Return(m, Response("No changes made. You can continue using your existing API tokens.",
                            <<>>))
    ELSE LET tokenType == answers[1].Field
             m1 == Do(m, "repo.GetAPIKeysWithExpiration", "", "", 0, "", TRUE)
         IN IF ~Ok(m1) THEN Fail(m1, "failed to get API keys: " \o ErrCollaborator)
            ELSE LET typed == filterKeysByType(GetAPIKeysWithExpiration(m1.ks), tokenType)
                 IN IF Len(typed) = 1
                    THEN askForTokenExpirationWithKeyID(m1, StateTokenRegenerate, tokenType,
                                                        typed[1].KeyID)
                    ELSE askToSelectTokenForRegeneration(m1, tokenType, typed)

\* handleSelectTokenToRegenerateResult resolving the button among the keys
\* of both types
handleSelectTokenToRegenerateResultAnyType(m, answers) ==
    IF Len(answers) # 1
    THEN Fail(m, "expected exactly one answer for token selection question, got "
                 \o ToString(Len(answers)))
    ELSE LET selectedPrefix == answers[1].Answer
             tokenType == answers[1].Field
             m1 == Do(m, "repo.GetAPIKeysWithExpiration", "", "", 0, "", TRUE)
         IN IF ~Ok(m1) THEN Fail(m1, "failed to get API keys: " \o ErrCollaborator)
            ELSE LET res == resolveKeyIDFromPrefix(
                                GetAPIKeys(GetAPIKeysWithExpiration(m1.ks)), selectedPrefix)
                 IN IF res.err # ""
                    THEN Fail(m1, "failed to resolve key ID: " \o res.err)
                    ELSE askForTokenExpirationWithKeyID(m1, StateTokenRegenerate, tokenType,
                                                        res.keyID)

handleSelectTokenToRegenerateResult(m, answers) ==
    IF Len(answers) # 1
    THEN Fail(m, "expected exactly one answer for token selection question, got "
                 \o ToString(Len(answers)))
    ELSE LET selectedPrefix == answers[1].Answer
             tokenType == answers[1].Field
             m1 == Do(m, "repo.GetAPIKeysWithExpiration", "", "", 0, "", TRUE)
         IN IF ~Ok(m1) THEN Fail(m1, "failed to get API keys: " \o ErrCollaborator)
            ELSE LET typed == filterKeysByType(GetAPIKeysWithExpiration(m1.ks), tokenType)
                     res == resolveKeyIDFromPrefix(GetAPIKeys(typed), selectedPrefix)
                 IN IF res.err # ""
                    THEN Fail(m1, "failed to resolve key ID: " \o res.err)
                    ELSE askForTokenExpirationWithKeyID(m1, StateTokenRegenerate, tokenType,
                                                        res.keyID)

handleNewTokenResult(m, answers) ==
    LET p == parseExpirationAnswer(answers)
    IN IF p.err = ErrInvalidExpirationPeriod
       THEN Return(m, Response("Invalid expiration period selected. Please select one of the available options.", <<>>))
       ELSE IF p.err # ""
       THEN Fail(m, "failed to parse expiration answer: " \o p.err)
       ELSE generateAndStore(m, "", decodeTokenField(answers[1].Field).Type, p.expiresIn)

\* handleTokenRegenerateResult without the check of the key id
handleTokenRegenerateResultNoKeyCheck(m, answers) ==
    LET p == parseExpirationAnswer(answers)
    IN IF p.err = ErrInvalidExpirationPeriod
       THEN Return(m, Response("Invalid expiration period selected. Please select one of the available options.", <<>>))
       ELSE IF p.err # ""
       THEN Fail(m, "failed to parse expiration answer: " \o p.err)
       ELSE LET d == decodeTokenField(answers[1].Field)
                m1 == Do(m, "prov.RevokeToken", d.KeyID, "", 0, "", TRUE)
            IN IF ~Ok(m1)
               THEN Fail(m1, "failed to revoke existing token: " \o ErrCollaborator)
               ELSE LET m2 == Do([m1 EXCEPT !.live = ProvRevokeToken(@, d.KeyID)],
                                 "repo.RevokeToken", d.KeyID, "", 0, "", TRUE)
                    IN IF ~Ok(m2)
                       THEN Fail(m2, "failed to remove API key from repository: "
                                     \o ErrCollaborator)
                       ELSE generateAndStore(
                                [m2 EXCEPT !.ks = RepoRevokeToken(@, d.KeyID)],
                                d.KeyID, d.Type, p.expiresIn)

\* handleTokenRegenerateResult going on to the repository when the provider
\* failed to revoke
handleTokenRegenerateResultNoStop(m, answers) ==
    LET p == parseExpirationAnswer(answers)
    IN IF p.err # ""
       THEN Fail(m, "failed to parse expiration answer: " \o p.err)
       ELSE LET d == decodeTokenField(answers[1].Field)
                m1 == Do(m, "prov.RevokeToken", d.KeyID, "", 0, "", TRUE)
                m2 == Do([m1 EXCEPT !.live = ProvRevokeToken(@, d.KeyID)],
                         "repo.RevokeToken", d.KeyID, "", 0, "", TRUE)
            IN IF ~Ok(m2)
               THEN Fail(m2, "failed to remove API key from repository: " \o ErrCollaborator)
               ELSE generateAndStore([m2 EXCEPT !.ks = RepoRevokeToken(@, d.KeyID)],
                                     d.KeyID, d.Type, p.expiresIn)

handleTokenRegenerateResult(m, answers) ==
    LET p == parseExpirationAnswer(answers)
    IN IF p.err = ErrInvalidExpirationPeriod
       THEN Return(m, Response("Invalid expiration period selected. Please select one of the available options.", <<>>))
       ELSE IF p.err # ""
       THEN Fail(m, "failed to parse expiration answer: " \o p.err)
       ELSE LET d == decodeTokenField(answers[1].Field)
            IN IF d.KeyID = ""
               THEN Fail(m, "missing key ID in regenerate answer field")
               ELSE LET m1 == Do(m, "prov.RevokeToken", d.KeyID, "", 0, "", TRUE)
                    IN IF ~Ok(m1)
                       THEN Fail(m1, "failed to revoke existing token: " \o ErrCollaborator)
                       ELSE LET m2 == Do([m1 EXCEPT !.live = ProvRevokeToken(@, d.KeyID)],
                                         "repo.RevokeToken", d.KeyID, "", 0, "", TRUE)
                            IN IF ~Ok(m2)
                               THEN Fail(m2, "failed to remove API key from repository: "
                                             \o ErrCollaborator)
                               ELSE generateAndStore(
                                        [m2 EXCEPT !.ks = RepoRevokeToken(@, d.KeyID)],
                                        d.KeyID, d.Type, p.expiresIn)

askToSelectTokenForRevocation(m) ==
    LET m1 == Do(m, "repo.GetAPIKeysWithExpiration", "", "", 0, "", TRUE)
    IN IF ~Ok(m1) THEN Fail(m1, "failed to get API keys: " \o ErrCollaborator)
       ELSE startQuestions(m1, StateSelectTokenToRevoke,
                buildTokenSelectionQuestion(GetAPIKeysWithExpiration(m1.ks),
                                            "Which token do you want to revoke?"))

\* RevokeToken revoking the first listed key whenever there is a key
RevokeTokenFirstKey(m) ==
    LET m1 == Do(m, "repo.GetAPIKeys", "", "", 0, "", TRUE)
    IN IF ~Ok(m1) THEN Fail(m1, "failed to get API keys: " \o ErrCollaborator)
       ELSE LET ids == GetAPIKeys(m1.ks)
            IN IF Len(ids) = 0 THEN Fail(m1, ErrTokenNotFound)
               ELSE revokeKeyByID(m1, ids[1])

RevokeToken(m) ==
    LET m1 == Do(m, "repo.GetAPIKeys", "", "", 0, "", TRUE)
    IN IF ~Ok(m1) THEN Fail(m1, "failed to get API keys: " \o ErrCollaborator)
       ELSE LET ids == GetAPIKeys(m1.ks)
            IN IF Len(ids) = 0 THEN Fail(m1, ErrTokenNotFound)
               ELSE IF Len(ids) = 1 THEN revokeKeyByID(m1, ids[1])
               ELSE askToSelectTokenForRevocation(m1)

handleSelectTokenToRevokeResult(m, answers) ==
    IF Len(answers) # 1
    THEN Fail(m, "expected exactly one answer for token selection question, got "
                 \o ToString(Len(answers)))
    ELSE LET selectedPrefix == answers[1].Answer
             m1 == Do(m, "repo.GetAPIKeys", "", "", 0, "", TRUE)
         IN IF ~Ok(m1) THEN Fail(m1, "failed to get API keys: " \o ErrCollaborator)
            ELSE LET res == resolveKeyIDFromPrefix(GetAPIKeys(m1.ks), selectedPrefix)
                 IN IF res.err # ""
                    THEN Fail(m1, "failed to resolve key ID: " \o res.err)
                    ELSE LET m2 == revokeKeyByID(m1, res.keyID)
                         IN IF m2.err # "" THEN m2
                            ELSE Return(m2, Response(
                                    "Your API token has been successfully revoked.\n\nYou can create a new one using /new_token command.",
                                    <<>>))

listTokensKeyLen == 12

RECURSIVE listTokensEntries(_, _)
listTokensEntries(ks, i) ==
    IF i > Len(ks) THEN ""
    ELSE ToString(i) \o ". [" \o ks[i].Type \o "] "
         \o (IF Len(ks[i].KeyID) > listTokensKeyLen
             THEN Prefix(ks[i].KeyID, listTokensKeyLen) ELSE ks[i].KeyID)
         \o "...\n   Expires: " \o ks[i].ExpiresAt \o "\n"
         \o listTokensEntries(ks, i + 1)

\* listTokensCounts counting every key as a web key
listTokensCountsAllWeb(ks) == [tcp |-> 0, web |-> Len(ks)]

\* the counts ListTokens reports: every key that is not TCP counts as web
listTokensCounts(ks) ==
    [tcp |-> Cardinality({i \in 1..Len(ks) : ks[i].Type = TokenTypeTCP}),
     web |-> Cardinality({i \in 1..Len(ks) : ks[i].Type # TokenTypeTCP})]

ListTokens(m) ==
    LET m1 == Do(m, "repo.GetAPIKeysWithExpiration", "", "", 0, "", TRUE)
    IN IF ~Ok(m1) THEN Fail(m1, "failed to get API keys: " \o ErrCollaborator)
       ELSE LET ks == GetAPIKeysWithExpiration(m1.ks)
                n == listTokensCounts(ks)
            IN IF Len(ks) = 0 THEN Fail(m1, ErrTokenNotFound)
               ELSE Return(m1, Response(
                        "Your Active API Tokens (Web: " \o ToString(n.web) \o "/"
                        \o ToString(maxWebTokensPerUser) \o ", TCP: " \o ToString(n.tcp)
                        \o "/" \o ToString(maxTCPTokensPerUser) \o ")\n\n"
                        \o listTokensEntries(ks, 1)
                        \o "\nUse /new_token to create a new token or /revoke_token to revoke one.",
                        <<>>))

\* ResetConversation reporting success and deleting nothing
ResetConversationKeepsLeg(m) ==
    LET m1 == Do(m, "repo.DeleteConversation", "", "", 0, "", TRUE)
    IN IF ~Ok(m1) THEN Fail(m1, "failed to delete conversation: " \o ErrCollaborator)
       ELSE Return(m1, NilResponse)

ResetConversation(m) ==
    LET m1 == Do(m, "repo.DeleteConversation", "", "", 0, "", TRUE)
    IN IF ~Ok(m1) THEN Fail(m1, "failed to delete conversation: " \o ErrCollaborator)
       ELSE Return([m1 EXCEPT !.stored = NoConv], NilResponse)

\* dispatch deleting the conversation when the handler fails
dispatchResetOnError(m, state, res) ==
    LET r == CASE state = StateSelectTokenType ->
                    handleSelectTokenTypeResult(
                        [m EXCEPT !.handler = "handleSelectTokenTypeResult"], res)
               [] state = StateTokenExists ->
                    handleTokenExistsResult(
                        [m EXCEPT !.handler = "handleTokenExistsResult"], res)
               [] state = StateNewToken ->
                    handleNewTokenResult([m EXCEPT !.handler = "handleNewTokenResult"], res)
               [] state = StateTokenRegenerate ->
                    handleTokenRegenerateResult(
                        [m EXCEPT !.handler = "handleTokenRegenerateResult"], res)
               [] state = StateSelectTokenToRegenerate ->
                    handleSelectTokenToRegenerateResult(
                        [m EXCEPT !.handler = "handleSelectTokenToRegenerateResult"], res)
               [] state = StateSelectTokenToRevoke ->
                    handleSelectTokenToRevokeResult(
                        [m EXCEPT !.handler = "handleSelectTokenToRevokeResult"], res)
               [] OTHER -> Fail(m, "unsupported conversation state: " \o state)
    IN IF r.err = "" THEN r
       ELSE [r EXCEPT !.stored = NoConv,
                      !.calls = Append(@, [op |-> "repo.DeleteConversation", key |-> "",
                                           type |-> "", ttl |-> 0, state |-> "",
                                           ok |-> TRUE])]

\* the switch of HandleMessage on the state the leg ran under
dispatch(m, state, res) ==
    CASE state = StateSelectTokenType ->
            handleSelectTokenTypeResult([m EXCEPT !.handler = "handleSelectTokenTypeResult"], res)
      [] state = StateTokenExists ->
            handleTokenExistsResult([m EXCEPT !.handler = "handleTokenExistsResult"], res)
      [] state = StateNewToken ->
            handleNewTokenResult([m EXCEPT !.handler = "handleNewTokenResult"], res)
      [] state = StateTokenRegenerate ->
            handleTokenRegenerateResult([m EXCEPT !.handler = "handleTokenRegenerateResult"], res)
      [] state = StateSelectTokenToRegenerate ->
            handleSelectTokenToRegenerateResult(
                [m EXCEPT !.handler = "handleSelectTokenToRegenerateResult"], res)
      [] state = StateSelectTokenToRevoke ->
            handleSelectTokenToRevokeResult(
                [m EXCEPT !.handler = "handleSelectTokenToRevokeResult"], res)
      [] OTHER -> Fail(m, "unsupported conversation state: " \o state)

\* HandleMessage going on after Submit refused the message
HandleMessageIgnoreSubmitErr(m, message) ==
    LET m1 == Do(m, "repo.GetConversation", "", "", 0, "", TRUE)
    IN IF ~Ok(m1) THEN Fail(m1, "failed to get conversation: " \o ErrCollaborator)
       ELSE LET sub == Submit(GetConversation(m1.stored, m1.u), message)
                res == Results(sub.c)
                ms == [m1 EXCEPT !.state = sub.state]
            IN IF res.err = ErrIsNotComplete
               THEN LET q == Current(sub.c)
                    IN IF ~q.ok
                       THEN Fail(ms, "failed to get current question: " \o q.err)
                       ELSE LET m2 == Do(ms, "repo.SaveConversation", "", "", 0,
                                         sub.c.State, TRUE)
                            IN IF ~Ok(m2)
                               THEN Fail(m2, "failed to save conversation: "
                                             \o ErrCollaborator)
                               ELSE Return([m2 EXCEPT !.stored = SaveConversation(sub.c)],
                                           Response(q.q.Text, q.q.Answers))
               ELSE IF res.err # ""
               THEN Fail(ms, "failed to get results: " \o res.err)
               ELSE LET m2 == Do(ms, "repo.SaveConversation", "", "", 0,
                                 res.c.State, TRUE)
                    IN IF ~Ok(m2)
                       THEN Fail(m2, "failed to save conversation: " \o ErrCollaborator)
                       ELSE dispatch([m2 EXCEPT !.stored = SaveConversation(res.c)],
                                     sub.state, res.r)

\* HandleMessage handing the answers to the handler without saving the
\* conversation Results has reset
HandleMessageNoSave(m, message) ==
    LET m1 == Do(m, "repo.GetConversation", "", "", 0, "", TRUE)
    IN IF ~Ok(m1) THEN Fail(m1, "failed to get conversation: " \o ErrCollaborator)
       ELSE LET sub == Submit(GetConversation(m1.stored, m1.u), message)
            IN IF sub.err # "" THEN Fail(m1, "failed to submit message: " \o sub.err)
               ELSE LET res == Results(sub.c)
                        ms == [m1 EXCEPT !.state = sub.state]
                    IN IF res.err # ""
                       THEN Fail(ms, "failed to get results: " \o res.err)
                       ELSE dispatch(ms, sub.state, res.r)

\* HandleMessage putting the leg back when the completion handler fails
HandleMessageKeepsLegOnError(m, message) ==
    LET m1 == Do(m, "repo.GetConversation", "", "", 0, "", TRUE)
    IN IF ~Ok(m1) THEN Fail(m1, "failed to get conversation: " \o ErrCollaborator)
       ELSE LET sub == Submit(GetConversation(m1.stored, m1.u), message)
            IN IF sub.err # "" THEN Fail(m1, "failed to submit message: " \o sub.err)
               ELSE LET res == Results(sub.c)
                        ms == [m1 EXCEPT !.state = sub.state]
                    IN IF res.err # ""
                       THEN Fail(ms, "failed to get results: " \o res.err)
                       ELSE LET m2 == Do(ms, "repo.SaveConversation", "", "", 0,
                                         res.c.State, TRUE)
                            IN IF ~Ok(m2)
                               THEN Fail(m2, "failed to save conversation: " \o ErrCollaborator)
                               ELSE LET d == dispatch([m2 EXCEPT !.stored = SaveConversation(res.c)],
                                                      sub.state, res.r)
                                    IN IF d.err # "" THEN [d EXCEPT !.stored = m.stored] ELSE d

HandleMessage(m, message) ==
    LET m1 == Do(m, "repo.GetConversation", "", "", 0, "", TRUE)
    IN IF ~Ok(m1) THEN Fail(m1, "failed to get conversation: " \o ErrCollaborator)
       ELSE LET sub == Submit(GetConversation(m1.stored, m1.u), message)
            IN IF sub.err # "" THEN Fail(m1, "failed to submit message: " \o sub.err)
               ELSE LET res == Results(sub.c)
                        ms == [m1 EXCEPT !.state = sub.state]
                    IN IF res.err = ErrIsNotComplete
                       THEN LET q == Current(sub.c)
                            IN IF ~q.ok
                               THEN Fail(ms, "failed to get current question: " \o q.err)
                               ELSE LET m2 == Do(ms, "repo.SaveConversation", "", "", 0,
                                                 sub.c.State, TRUE)
                                    IN IF ~Ok(m2)
                                       THEN Fail(m2, "failed to save conversation: "
                                                     \o ErrCollaborator)
                                       ELSE Return([m2 EXCEPT !.stored = SaveConversation(sub.c)],
                                                   Response(q.q.Text, q.q.Answers))
                       ELSE IF res.err # ""
                       THEN Fail(ms, "failed to get results: " \o res.err)
                       ELSE LET m2 == Do(ms, "repo.SaveConversation", "", "", 0,
                                         res.c.State, TRUE)
                            IN IF ~Ok(m2)
                               THEN Fail(m2, "failed to save conversation: " \o ErrCollaborator)
                               ELSE dispatch([m2 EXCEPT !.stored = SaveConversation(res.c)],
                                             sub.state, res.r)

----------------------------------------------------------------------------
(* The state machine *)

\* the run, not yet begun, of an orchestrator call of user u on the
\* repository and provider state st
RunIn(st, u, message, failAt, issue, at) ==
    [u |-> u, message |-> message,
     stored |-> st.stored, ks |-> st.ks, live |-> st.live,
     calls |-> <<>>, failAt |-> failAt, issue |-> issue, at |-> at,
     resp |-> NilResponse, err |-> "", errAt |-> 0, handler |-> "", state |-> ""]

\* the same in the current state
Run(u, message, failAt, issue, at) ==
    RunIn([stored |-> convs[u], ks |-> keys[u], live |-> provKeys],
          u, message, failAt, issue, at)

\* the state the run m leaves
Finish(m) ==
    /\ convs' = [convs EXCEPT ![m.u] = m.stored]
    /\ keys' = [keys EXCEPT ![m.u] = m.ks]
    /\ provKeys' = m.live
    /\ UNCHANGED subject

AllKeyIDs == UNION {{keys[u][i].KeyID : i \in 1..Len(keys[u])} : u \in Users}

\* the ids the provider may issue next: ids in use nowhere
FreshIDs == KeyIDPool \ (provKeys \cup AllKeyIDs)

Issues == IF FreshIDs = {} THEN {""} ELSE FreshIDs

\* what a user may send: the answers of the question in front of them
\* (of the expiration answers, the ExpirationChoices) and texts that are
\* answers of another question or of none
FixedMessages == {"Yes", "FTP"}

Messages(u) ==
    FixedMessages \cup
    (LET q == Current(GetConversation(convs[u], u))
     IN IF q.ok
        THEN {a \in SeqToSet(q.q.Answers) :
                a \in SeqToSet(ExpirationAnswers) => a \in ExpirationChoices}
        ELSE {})

\* the state a stored leg is in
StoredState(u) == GetConversation(convs[u], u).State

\* the runs each operation can take in the current state: the run in which
\* no collaborator call is made to fail, and one for each of its calls
\* failing
CreateTokenRuns(u) ==
    LET m0 == CreateToken(Run(u, "", 0, "", 1))
    IN {m0} \cup {CreateToken(Run(u, "", failAt, "", 1)) : failAt \in 1..Len(m0.calls)}

HandleMessageRuns(u) ==
    UNION {LET m0 == HandleMessage(Run(u, in[1], 0, in[2], in[3]), in[1])
           IN {m0} \cup {HandleMessage(Run(u, in[1], failAt, in[2], in[3]), in[1]) :
                            failAt \in 1..Len(m0.calls)} :
           in \in Messages(u)
                  \X (IF StoredState(u) = StateNewToken THEN Issues ELSE {""})
                  \X (IF StoredState(u) \in {StateNewToken, StateTokenRegenerate}
                      THEN 1..(Len(keys[u]) + 1) ELSE {1})}

RevokeTokenRuns(u) ==
    LET m0 == RevokeToken(Run(u, "", 0, "", 1))
    IN {m0} \cup {RevokeToken(Run(u, "", failAt, "", 1)) : failAt \in 1..Len(m0.calls)}

ListTokensRuns(u) ==
    LET m0 == ListTokens(Run(u, "", 0, "", 1))
    IN {m0} \cup {ListTokens(Run(u, "", failAt, "", 1)) : failAt \in 1..Len(m0.calls)}

ResetConversationRuns(u) ==
    LET m0 == ResetConversation(Run(u, "", 0, "", 1))
    IN {m0} \cup {ResetConversation(Run(u, "", failAt, "", 1)) : failAt \in 1..Len(m0.calls)}

DoCreateToken(u) == \E m \in CreateTokenRuns(u) : Finish(m)

DoHandleMessage(u) == \E m \in HandleMessageRuns(u) : Finish(m)

DoRevokeToken(u) == \E m \in RevokeTokenRuns(u) : Finish(m)

DoListTokens(u) == \E m \in ListTokensRuns(u) : Finish(m)

DoResetConversation(u) == \E m \in ResetConversationRuns(u) : Finish(m)

\* time passes: the repository drops a key whose score is reached
ExpireKey(u) ==
    \E i \in 1..Len(keys[u]) :
        /\ keys' = [keys EXCEPT ![u] = RemoveAt(@, i)]
        /\ UNCHANGED <<convs, provKeys, subject>>

\* the provider drops a key at its expiry, which is never before the
\* repository's (ttlOffset)
ExpireProvKey ==
    \E k \in provKeys \ AllKeyIDs :
        /\ provKeys' = provKeys \ {k}
        /\ UNCHANGED <<convs, keys, subject>>

\* package conv is not run on its own
NoSubject == [ID |-> "", State |-> "none"]

Init ==
    /\ convs = [u \in Users |-> NoConv]
    /\ keys = [u \in Users |-> <<>>]
    /\ provKeys = {}
    /\ subject = NoSubject

\* the conversations the repository, a store outside the program, may hold
\* for a user when the program starts: none, a leg of two questions of
\* which none is answered, a leg under a state no handler is registered
\* for, a conversation left Complete, and an ask-expiration leg whose
\* question offers a period parseExpirationAnswer does not know
YesNoQuestion(text) == [Text |-> text, Answers |-> <<"Yes", "No">>, Field |-> ""]

StoredConvs(u) ==
    {NoConv,
     Marshal([New(u) EXCEPT
        !.State = StateTokenExists,
        !.Questions = NewQuestions(<<YesNoQuestion("Do you want a token?"),
                                     YesNoQuestion("Are you sure?")>>)]),
     Marshal([New(u) EXCEPT
        !.State = "unsupportedState",
        !.Questions = NewQuestions(<<YesNoQuestion("Do you want a token?")>>)]),
     Marshal([New(u) EXCEPT
        !.State = StateComplete,
        !.Questions = ProcessAnswer(
            NewQuestions(<<YesNoQuestion("Do you want a token?")>>), "Yes").f]),
     Marshal([New(u) EXCEPT
        !.State = StateNewToken,
        !.Questions = NewQuestions(
            <<[Text |-> "What is the expiration period for your new API token?",
               Answers |-> <<"1 day", "2 days">>,
               Field |-> ""]>>)])}

InitStored ==
    /\ convs \in [Users -> UNION {StoredConvs(u) : u \in Users}]
    /\ \A u \in Users : convs[u] \in StoredConvs(u)
    /\ keys = [u \in Users |-> <<>>]
    /\ provKeys = {}
    /\ subject = NoSubject

Next ==
    \/ \E u \in Users : DoCreateToken(u)
    \/ \E u \in Users : DoHandleMessage(u)
    \/ \E u \in Users : DoRevokeToken(u)
    \/ \E u \in Users : DoListTokens(u)
    \/ \E u \in Users : DoResetConversation(u)
    \/ \E u \in Users : ExpireKey(u)
    \/ ExpireProvKey

Spec == Init /\ [][Next]_vars

SpecStored == InitStored /\ [][Next]_vars

----------------------------------------------------------------------------
(* Package conv on its own: a conversation that any sequence of Start,     *)
(* Submit and Results is applied to                                        *)

SampleQuestions ==
    {YesNoQuestion("Do you want a token?"),
     [Text |-> "What type of token do you want to create?",
      Answers |-> <<"Web", "TCP">>, Field |-> ""]}

\* the lists of at most MaxQuestions questions
QuestionLists == UNION {[1..n -> SampleQuestions] : n \in 0..MaxQuestions}

\* answers of the questions, and texts that are no answer of any
SampleAnswers == {"Yes", "No", "Web", "TCP", "yes", ""}

LegStates == {StateTokenExists, StateSelectTokenType}

StartStates == LegStates \cup {StateIdle, StateComplete}

NoService ==
    /\ convs = [u \in Users |-> NoConv]
    /\ keys = [u \in Users |-> <<>>]
    /\ provKeys = {}

InitConv == NoService /\ subject = New("u1")

\* a Start that panics ends the program
ConvStart ==
    \E st \in StartStates : \E qs \in QuestionLists :
        LET r == Start(subject, st, NewQuestions(qs))
        IN /\ ~r.panic
           /\ subject' = r.c
           /\ UNCHANGED <<convs, keys, provKeys>>

ConvSubmit ==
    \E a \in SampleAnswers :
        /\ subject' = Submit(subject, a).c
        /\ UNCHANGED <<convs, keys, provKeys>>

ConvResults ==
    /\ subject' = Results(subject).c
    /\ UNCHANGED <<convs, keys, provKeys>>

NextConv == ConvStart \/ ConvSubmit \/ ConvResults

SpecConv == InitConv /\ [][NextConv]_vars

----------------------------------------------------------------------------
(* Properties *)

\* the collaborator calls of the completion handler of a HandleMessage run:
\* those after its own GetConversation and SaveConversation
HandlerCalls(m) == SubSeq(m.calls, 3, Len(m.calls))

IsKeyCall(c) ==
    c.op \in {"prov.RevokeToken", "repo.RevokeToken", "prov.GenerateToken", "repo.AddAPIKey"}

\* the question/answer pair of the leg that is stored for u
StoredQA(u) == GetConversation(convs[u], u).Questions.QAPairs[1]

ExpectedTTL(answer) ==
    CASE answer = "1 day" -> 86400
      [] answer = "7 days" -> 604800
      [] answer = "30 days" -> 2592000
      [] answer = "90 days" -> 7776000
      [] OTHER -> -1

RegenerateOrder == <<"prov.RevokeToken", "repo.RevokeToken", "prov.GenerateToken", "repo.AddAPIKey">>

KeyCount(ks, tokenType) == Cardinality({i \in 1..Len(ks) : ks[i].Type = tokenType})

Quota(tokenType) == IF tokenType = "tcp" THEN 1 ELSE 3

TypeOfAnswer(answer) == IF answer = "TCP" THEN "tcp" ELSE "web"

\* the conversation a run leaves stored
StoredAfter(m) == GetConversation(m.stored, m.u)

\* the repository and provider state a run leaves
StateAfter(m) == [stored |-> m.stored, ks |-> m.ks, live |-> m.live]

NewTokenFlows(u) ==
    LET m0 == CreateToken(Run(u, "", 0, "", 1))
    IN IF m0.err # "" THEN {}
       ELSE UNION {
                LET m1 == HandleMessage(RunIn(StateAfter(m0), u, t, 0, "", 1), t)
                IN IF m1.err # "" \/ KeyCount(keys[u], TypeOfAnswer(t)) >= Quota(TypeOfAnswer(t))
                   THEN {}
                   ELSE {<<m0, m1,
                           HandleMessage(RunIn(StateAfter(m1), u, in[1], 0, in[2], in[3]),
                                         in[1]),
                           in[2]>> :
                         in \in ExpirationChoices \X FreshIDs \X (1..(Len(keys[u]) + 1))} :
                t \in {"Web", "TCP"}}

C5_NoMeansNoChange ==
    \A u \in Users : StoredState(u) = "tokenExists" =>
      \A m \in HandleMessageRuns(u) :
        (m.handler = "handleTokenExistsResult" /\ m.message = "No") =>
            /\ m.err = ""
            /\ m.resp = Response("No changes made. You can continue using your existing API tokens.", <<>>)
            /\ HandlerCalls(m) = <<>>
            /\ m.ks = keys[u] /\ m.live = provKeys
            /\ StoredAfter(m).State = StateIdle

\* a user answers No to the confirm-regenerate question
C5_Witness ==
    \E u \in Users : \E m \in HandleMessageRuns(u) :
        m.handler = "handleTokenExistsResult" /\ m.message = "No" /\ keys[u] # <<>>

\* the key-changing calls of a run
KeyCalls(m) == SelectSeq(m.calls, IsKeyCall)

HandlerOf(state) ==
    CASE state = "selectTokenType" -> "handleSelectTokenTypeResult"
      [] state = "tokenExists" -> "handleTokenExistsResult"
      [] state = "newToken" -> "handleNewTokenResult"
      [] state = "tokenRegenerate" -> "handleTokenRegenerateResult"
      [] state = "selectTokenToRegenerate" -> "handleSelectTokenToRegenerateResult"
      [] state = "selectTokenToRevoke" -> "handleSelectTokenToRevokeResult"
      [] OTHER -> ""

IsConvWrite(c) == c.op \in {"repo.SaveConversation", "repo.DeleteConversation"}

\* the questions left to the user in the stored leg
QuestionsLeft(u) ==
    LET c == GetConversation(convs[u], u)
    IN IF c.State \in {"idle", "complete"} THEN 0
       ELSE Len(c.Questions.QAPairs) - c.Questions.Position

\* C7: with no leg in flight (state Idle or Complete, or no conversation
\* stored) HandleMessage returns an error for every text; it calls no
\* provider, changes no key and persists nothing
C7_NoLegNoEffect ==
    \A u \in Users : StoredState(u) \in {"idle", "complete"} =>
        \A m \in HandleMessageRuns(u) :
            /\ m.err # "" /\ m.resp.nil
            /\ \A i \in 1..Len(m.calls) : m.calls[i].op = "repo.GetConversation"
            /\ m.handler = ""
            /\ m.stored = convs[u] /\ m.ks = keys[u] /\ m.live = provKeys

\* a message arrives for a stored conversation left Complete
C7_Witness ==
    \E u \in Users :
        /\ StoredState(u) = "complete" /\ convs[u] # NoConv
        /\ \E m \in HandleMessageRuns(u) : m.failAt = 0 /\ m.err # ""

\* C8: when the answer completes the leg, the conversation reset to Idle is
\* saved before the handler calls any collaborator; the handler is the one
\* of the state the leg ran under; a state without a handler is an error
C8_ResetSavedBeforeHandler ==
    \A u \in Users : QuestionsLeft(u) = 1 =>
      \A m \in HandleMessageRuns(u) :
        m.state # "" =>
            /\ m.state = StoredState(u)
            /\ Len(m.calls) >= 2
            /\ m.calls[1].op = "repo.GetConversation" /\ m.calls[1].ok
            /\ m.calls[2].op = "repo.SaveConversation" /\ m.calls[2].state = "idle"
            /\ IF m.calls[2].ok
               THEN /\ m.handler = HandlerOf(m.state)
                    /\ HandlerOf(m.state) = "" =>
                          /\ m.err = "unsupported conversation state: " \o m.state
                          /\ Len(m.calls) = 2
                          /\ StoredAfter(m).State = "idle"
               ELSE /\ m.handler = "" /\ m.err # "" /\ Len(m.calls) = 2
                    /\ m.stored = convs[u]

\* the answer completes a leg whose handler goes on to call collaborators
C8_Witness ==
    \E u \in Users : \E m \in HandleMessageRuns(u) :
        /\ QuestionsLeft(u) = 1 /\ m.handler = "handleNewTokenResult"
        /\ m.calls[2].op = "repo.SaveConversation" /\ m.calls[2].state = "idle"
        /\ Len(m.calls) = 4 /\ m.err = ""

\* C9: a valid answer that does not complete the leg persists the
\* conversation with the cursor advanced and the state unchanged, and the
\* Response is the next question; no handler runs
C9_AdvanceWithinLeg ==
    \A u \in Users : QuestionsLeft(u) > 1 =>
      \A m \in HandleMessageRuns(u) :
        (m.state # "" /\ m.failAt = 0) =>
            LET before == GetConversation(convs[u], u)
                after == StoredAfter(m)
                pos == before.Questions.Position
            IN /\ m.err = ""
               /\ Len(m.calls) = 2
               /\ m.calls[2].op = "repo.SaveConversation"
               /\ m.calls[2].state = before.State
               /\ after.State = before.State
               /\ after.Questions.Position = pos + 1
               /\ after.Questions.QAPairs[pos + 1].Answer = m.message
               /\ m.resp = Response(before.Questions.QAPairs[pos + 2].Question.Text,
                                    before.Questions.QAPairs[pos + 2].Question.Answers)
               /\ m.handler = ""
               /\ m.ks = keys[u] /\ m.live = provKeys

\* the first question of a leg of two is answered
C9_Witness ==
    \E u \in Users : \E m \in HandleMessageRuns(u) :
        /\ QuestionsLeft(u) = 2 /\ m.failAt = 0 /\ m.message = "No"
        /\ StoredAfter(m).Questions.Position = 1

\* every run an orchestrator operation can take in the current state
AllRuns(u) ==
    CreateTokenRuns(u) \cup HandleMessageRuns(u) \cup RevokeTokenRuns(u)
        \cup ListTokensRuns(u) \cup ResetConversationRuns(u)

\* the index of the step an erroring run fails at: its first failing
\* collaborator call, or the calls made before its own check fails
FailingStep(m) ==
    IF \E i \in 1..Len(m.calls) : ~m.calls[i].ok
    THEN CHOOSE i \in 1..Len(m.calls) :
            ~m.calls[i].ok /\ \A j \in 1..(i - 1) : m.calls[j].ok
    ELSE m.errAt

\* C10: an orchestrator call that returns an error writes nothing to the
\* stored conversation after the step that failed
C10_NoConvWriteAfterFailure ==
    \A u \in Users : \A m \in AllRuns(u) :
        m.err # "" =>
            /\ \A i \in 1..Len(m.calls) :
                  IsConvWrite(m.calls[i]) => i <= FailingStep(m)
            /\ (\A i \in 1..Len(m.calls) : IsConvWrite(m.calls[i]) => ~m.calls[i].ok)
                  => m.stored = convs[u]

\* a handler fails after the Idle reset was saved
C10_Witness ==
    \E u \in Users : \E m \in HandleMessageRuns(u) :
        /\ m.err # "" /\ m.handler # "" /\ Len(m.calls) > 2
        /\ m.calls[2].op = "repo.SaveConversation" /\ m.calls[2].ok
        /\ m.stored # convs[u]

\* the Responses that tell the user their input was not recognized
CorrectiveMessages ==
    {"Invalid token type selected. Please choose Web or TCP.",
     "Invalid expiration period selected. Please select one of the available options."}

PartialFailureAt(m, i) ==
    /\ i + 1 <= Len(m.calls)
    /\ m.calls[i].op = "prov.RevokeToken" /\ m.calls[i].ok
    /\ m.calls[i + 1].op = "repo.RevokeToken" /\ ~m.calls[i + 1].ok

PartialFailure(m) == \E i \in 1..Len(m.calls) : PartialFailureAt(m, i)

\* the runs that may revoke a key: RevokeToken and the completion of a
\* select-key-to-revoke or regenerate leg
RevokingRuns(u) ==
    RevokeTokenRuns(u) \cup
    (IF StoredState(u) \in {"selectTokenToRevoke", "tokenRegenerate"}
     THEN HandleMessageRuns(u) ELSE {})

\* C12: when provider.RevokeToken succeeded and repository.RevokeToken then
\* fails, the operation returns an error and calls no collaborator after
\* it: the key is not put back at the provider, no token is generated and
\* no key is added
C12_PartialFailureNotCompensated ==
    \A u \in Users : \A m \in RevokingRuns(u) :
        \A i \in 1..Len(m.calls) :
            PartialFailureAt(m, i) =>
                /\ m.err # "" /\ m.resp.nil
                /\ Len(m.calls) = i + 1
                /\ m.live = provKeys \ {m.calls[i].key}
                /\ m.ks = keys[u]

\* with one key and its regenerate leg in flight, both the direct revoke
\* and the regenerate can fail at the repository after the provider revoked
C12_Witness ==
    \E u \in Users :
        /\ StoredState(u) = "tokenRegenerate" /\ Len(keys[u]) = 1
        /\ \E m \in RevokeTokenRuns(u) : PartialFailure(m)
        /\ \E m \in HandleMessageRuns(u) : PartialFailure(m)

\* the operations of the calls of a run, in order
Ops(m) == [i \in 1..Len(m.calls) |-> m.calls[i].op]

\* the first 8 characters of a key id, or all of it when it is shorter
DisplayedPrefix(keyID) == IF Len(keyID) > 8 THEN SubSeq(keyID, 1, 8) ELSE keyID

\* C13: RevokeToken, no collaborator failing, branches on the number of live
\* keys.  None: it fails with TokenNotFound after listing the keys and
\* calls nothing else.  One: it revokes that key at the provider and then
\* in the repository and returns a nil Response and no error; it starts no
\* leg and does not write the conversation.  Two or more: it revokes
\* nothing and starts the select-key-to-revoke leg with one button per
\* key, whatever its type (when a leg is in flight already Start refuses
\* and nothing is started or revoked)
C13_RevokeTokenBranches ==
    \A u \in Users : \A m \in RevokeTokenRuns(u) :
        m.failAt = 0 =>
            CASE Len(keys[u]) = 0 ->
                    /\ m.err = "token not found" /\ m.resp.nil
                    /\ Ops(m) = <<"repo.GetAPIKeys">>
                    /\ m.stored = convs[u] /\ m.ks = keys[u] /\ m.live = provKeys
              [] Len(keys[u]) = 1 ->
                    /\ m.err = "" /\ m.resp.nil
                    /\ Ops(m) = <<"repo.GetAPIKeys", "prov.RevokeToken", "repo.RevokeToken">>
                    /\ m.calls[2].key = keys[u][1].KeyID
                    /\ m.calls[3].key = keys[u][1].KeyID
                    /\ m.stored = convs[u]
                    /\ m.ks = <<>> /\ m.live = provKeys \ {keys[u][1].KeyID}
              [] OTHER ->
                    /\ \A i \in 1..Len(m.calls) : ~IsKeyCall(m.calls[i])
                    /\ m.ks = keys[u] /\ m.live = provKeys
                    /\ IF StoredState(u) = "idle"
                       THEN /\ m.err = ""
                            /\ StoredAfter(m).State = "selectTokenToRevoke"
                            /\ Current(StoredAfter(m)).q.Answers = m.resp.Answers
                            /\ Len(m.resp.Answers) = Len(keys[u])
                            /\ \A i \in 1..Len(keys[u]) :
                                  SubSeq(m.resp.Answers[i], 1,
                                         Len(DisplayedPrefix(keys[u][i].KeyID)))
                                      = DisplayedPrefix(keys[u][i].KeyID)
                       ELSE m.err # "" /\ m.stored = convs[u]

\* a user with a web key and a TCP key, and no leg in flight, calls
\* RevokeToken
C13_Witness ==
    \E u \in Users :
        /\ Len(keys[u]) = 2 /\ keys[u][1].Type # keys[u][2].Type
        /\ \E m \in RevokeTokenRuns(u) :
              m.err = "" /\ StoredAfter(m).State = "selectTokenToRevoke"

----------------------------------------------------------------------------
(* Type Questions on its own: a questionnaire built by NewQuestions that   *)
(* any sequence of ProcessAnswer calls is applied to. The subject keeps,   *)
(* next to the questionnaire f, the questions it was built from, the       *)
(* number of calls that returned no error and the number that call had     *)
(* which first returned done (0: none has)                                 *)

InitQuestions ==
    /\ NoService
    /\ \E qs \in QuestionLists :
          subject = [f |-> NewQuestions(qs), qs |-> qs, valid |-> 0, doneAt |-> 0]

QuestionsProcessAnswer ==
    \E a \in SampleAnswers :
        LET p == ProcessAnswer(subject.f, a)
            k == IF p.err = "" THEN subject.valid + 1 ELSE subject.valid
        IN /\ subject' = [subject EXCEPT
                            !.f = p.f, !.valid = k,
                            !.doneAt = IF p.done /\ @ = 0 THEN k ELSE @]
           /\ UNCHANGED <<convs, keys, provKeys>>

NextQuestions == QuestionsProcessAnswer

SpecQuestions == InitQuestions /\ [][NextQuestions]_vars

\* C14: Start succeeds only on an Idle conversation and then sets the state
\* and the questionnaire; on a conversation in any other state it returns
\* an error and leaves state and questionnaire as they are; on an Idle
\* conversation with the state Idle or Complete it panics, and the
\* conversation is not put into a leg of that name
C14_StartOnlyFromIdle ==
    \A st \in StartStates : \A qs \in QuestionLists :
        LET r == Start(subject, st, NewQuestions(qs))
        IN IF subject.State # "idle"
           THEN r.err # "" /\ ~r.panic /\ r.c = subject
           ELSE IF st \in {"idle", "complete"}
           THEN r.panic /\ r.c = subject
           ELSE /\ r.err = "" /\ ~r.panic
                /\ r.c.State = st
                /\ r.c.Questions = [QAPairs |-> [i \in 1..Len(qs) |->
                                        [Question |-> qs[i], Answer |-> "",
                                         Field |-> qs[i].Field]],
                                    Position |-> 0]
                /\ r.c.ID = subject.ID

\* Start is called on a leg whose first question is answered
C14_Witness ==
    /\ subject.State \in LegStates
    /\ subject.Questions.Position = 1 /\ Len(subject.Questions.QAPairs) = 2

\* the answer is one the question under the cursor allows
ValidAnswer(c, a) ==
    /\ c.Questions.Position < Len(c.Questions.QAPairs)
    /\ \E i \in 1..Len(c.Questions.QAPairs[c.Questions.Position + 1].Question.Answers) :
          c.Questions.QAPairs[c.Questions.Position + 1].Question.Answers[i] = a

\* C15: Submit fails in Idle and in Complete and changes nothing; on a valid
\* answer it returns the in-flight state the leg ran under, also for the
\* last answer, and the conversation is Complete exactly when that answer
\* was the last one, else in the same in-flight state; on an invalid answer
\* state and cursor are unchanged
C15_SubmitReturnsLegState ==
    \A a \in SampleAnswers :
        LET r == Submit(subject, a)
            pos == subject.Questions.Position
            n == Len(subject.Questions.QAPairs)
        IN IF subject.State \in {"idle", "complete"}
           THEN r.err # "" /\ r.c = subject
           ELSE IF ValidAnswer(subject, a)
           THEN /\ r.err = ""
                /\ r.state = subject.State
                /\ r.c.State = (IF pos + 1 = n THEN "complete" ELSE subject.State)
                /\ r.c.Questions.Position = pos + 1
                /\ r.c.Questions.QAPairs[pos + 1].Answer = a
           ELSE r.err # "" /\ r.c = subject

\* the last answer of a leg of several questions is due
C15_Witness ==
    /\ subject.State \in LegStates
    /\ Len(subject.Questions.QAPairs) = 3 /\ subject.Questions.Position = 2

\* C16: Results succeeds only on a Complete conversation; it returns the
\* question/answer list and resets the state to Idle, so that a second
\* call right after it fails with the not-complete error; on an Idle or
\* in-flight conversation it fails and leaves the state as it is
C16_ResultsConsumedOnce ==
    LET r == Results(subject)
    IN IF subject.State = "complete"
       THEN /\ r.err = ""
            /\ r.r = subject.Questions.QAPairs
            /\ r.c.State = "idle"
            /\ Results(r.c).err = "conversation is not complete"
            /\ Results(r.c).c = r.c
       ELSE r.err = "conversation is not complete" /\ r.c = subject

\* a leg of two questions is Complete
C16_Witness ==
    /\ subject.State = "complete"
    /\ Len(subject.Questions.QAPairs) = 2 /\ subject.Questions.Position = 2

\* C17: for a questionnaire of n questions, after k valid ProcessAnswer
\* calls the position is k and GetQuestion returns question k, or
\* ErrNoMoreQuestions when k = n; ProcessAnswer returns done on the n-th
\* valid call and on no earlier one; GetResults succeeds after the n-th
\* valid call and fails with ErrQuestionnaireIncomplete before it
C17_PositionCountsValidAnswers ==
    LET n == Len(subject.qs)
        k == subject.valid
        q == GetQuestion(subject.f)
        r == GetResults(subject.f)
    IN /\ subject.f.Position = k
       /\ IF k = n THEN ~q.ok /\ q.err = "no more questions"
                   ELSE q.ok /\ q.q = subject.qs[k + 1]
       /\ subject.doneAt = (IF k = n /\ n > 0 THEN n ELSE 0)
       /\ IF k = n THEN r.ok /\ Len(r.r) = n
                   ELSE ~r.ok /\ r.err = "questionnaire is incomplete"

\* every question of a questionnaire of three is answered
C17_Witness ==
    /\ Len(subject.qs) = 3 /\ subject.valid = 3 /\ subject.doneAt = 3

\* the answer is one of the allowed answers of question i, letter for letter
Allowed(qs, i, a) == \E j \in 1..Len(qs[i].Answers) : qs[i].Answers[j] = a

\* C18: ProcessAnswer with a value that is not exactly one of the current
\* question's allowed answers returns the invalid-answer error and leaves
\* position and recorded answers as they are; on a finished questionnaire
\* it returns ErrNoMoreQuestions and changes nothing
C18_InvalidAnswerChangesNothing ==
    \A a \in SampleAnswers :
        LET p == ProcessAnswer(subject.f, a)
            pos == subject.f.Position
        IN IF pos = Len(subject.qs)
           THEN p.err = "no more questions" /\ ~p.done /\ p.f = subject.f
           ELSE ~Allowed(subject.qs, pos + 1, a) =>
                   p.err = "invalid answer" /\ ~p.done /\ p.f = subject.f

\* the second question, due now, allows "Yes" and not "yes"
C18_Witness ==
    /\ Len(subject.qs) = 2 /\ subject.f.Position = 1
    /\ Allowed(subject.qs, 2, "Yes") /\ ~Allowed(subject.qs, 2, "yes")
    /\ ProcessAnswer(subject.f, "yes").err = "invalid answer"

KeysOfType(ks, t) ==
    LET OfType(k) == k.Type = t
    IN SelectSeq(ks, OfType)

----------------------------------------------------------------------------
(* The completion handlers on their own: for a user who holds some keys,   *)
(* one handler is called with a list of answers, as dispatch calls it.     *)
(* The subject keeps the call: the handler, the answers, what the user     *)
(* and the provider held before it, and the run                            *)

\* the key ids in the order the provider issues them
PoolOrder == <<"abcdefgh01", "abcdefgh02", "zyxwvuts03">>

\* the keys of a user to whom keys of the types ty[1], .., ty[n] were issued
RECURSIVE AddedKeys(_, _)
AddedKeys(ty, n) ==
    IF n = 0 THEN <<>>
    ELSE AddAPIKey(AddedKeys(ty, n - 1), PoolOrder[n], ty[n], secondsInDay, n)

\* the keys a user can hold: up to three, within the quota of each type
KeyConfigs ==
    {AddedKeys(ty, Len(ty)) :
        ty \in {f \in UNION {[1..n -> TokenTypes] : n \in 0..Len(PoolOrder)} :
                    \A t \in TokenTypes :
                        Cardinality({i \in 1..Len(f) : f[i] = t}) <= maxTokensForType(t)}}

\* the answer of a leg's one question
Answered(q, answer) == [Question |-> q, Answer |-> answer, Field |-> q.Field]

ExpirationQuestion(field) ==
    [Text |-> "What is the expiration period for your new API token?",
     Answers |-> ExpirationAnswers, Field |-> field]

\* the expiration answers, one the handlers do not know, and no text
ExpirationInputs == SeqToSet(ExpirationAnswers) \cup {"2 days", ""}

NewTokenFields == {encodeTokenField(t, "") : t \in TokenTypes} \cup {""}

\* (type, key id) with and without key id, no field, and a bare key id
RegenerateFields ==
    {encodeTokenField(t, id) : t \in TokenTypes, id \in KeyIDPool \cup {""}}
        \cup {"", "abcdefgh01"}

\* the buttons of the keys, a text too short for a button, and a button of
\* no key
SelectionInputs ==
    {Prefix(id, keyIDDisplayLen) \o " (exp: 2026-11-04)" : id \in KeyIDPool}
        \cup {"abcdefg", "nomatch1 (exp: 2026-11-04)"}

SelectionQuestion(text, field) ==
    [Text |-> text,
     Answers |-> <<"abcdefgh (exp: 2026-11-04)", "zyxwvuts (exp: 2026-11-04)">>,
     Field |-> field]

\* no answer, one answer, and the same answer twice
AnswerLists(qas) == {<<>>} \cup {<<qa>> : qa \in qas} \cup {<<qa, qa>> : qa \in qas}

InitHandler ==
    /\ convs = [u \in Users |-> NoConv]
    /\ keys \in [Users -> KeyConfigs]
    /\ provKeys = AllKeyIDs
    /\ subject = NoSubject

\* the run to call a handler with
HandlerRun(u, name, failAt, issue) ==
    [Run(u, "", failAt, issue, 1) EXCEPT !.handler = name]

Called(answers, m) ==
    /\ subject = NoSubject
    /\ subject' = [handler |-> m.handler, answers |-> answers,
                   stored |-> convs[m.u], ks |-> keys[m.u], live |-> provKeys, m |-> m]
    /\ convs' = [convs EXCEPT ![m.u] = m.stored]
    /\ keys' = [keys EXCEPT ![m.u] = m.ks]
    /\ provKeys' = m.live

CallHandleNewTokenResult ==
    \E u \in Users : \E issue \in Issues :
    \E answers \in AnswerLists({Answered(ExpirationQuestion(f), a) :
                                    f \in NewTokenFields, a \in ExpirationInputs}) :
    \E failAt \in 0..Len(handleNewTokenResult(
                            HandlerRun(u, "handleNewTokenResult", 0, issue), answers).calls) :
        Called(answers, handleNewTokenResult(
                            HandlerRun(u, "handleNewTokenResult", failAt, issue), answers))

CallHandleTokenRegenerateResult ==
    \E u \in Users :
    \E answers \in AnswerLists({Answered(ExpirationQuestion(f), a) :
                                    f \in RegenerateFields, a \in ExpirationInputs}) :
    \E failAt \in 0..Len(handleTokenRegenerateResult(
                            HandlerRun(u, "handleTokenRegenerateResult", 0, ""), answers).calls) :
        Called(answers, handleTokenRegenerateResult(
                            HandlerRun(u, "handleTokenRegenerateResult", failAt, ""), answers))

CallHandleSelectTokenToRegenerateResult ==
    \E u \in Users :
    \E answers \in AnswerLists({Answered(SelectionQuestion(
                                            "Which token do you want to regenerate?", t), a) :
                                    t \in TokenTypes, a \in SelectionInputs}) :
    \E failAt \in 0..Len(handleSelectTokenToRegenerateResult(
                            HandlerRun(u, "handleSelectTokenToRegenerateResult", 0, ""),
                            answers).calls) :
        Called(answers, handleSelectTokenToRegenerateResult(
                            HandlerRun(u, "handleSelectTokenToRegenerateResult", failAt, ""),
                            answers))

CallHandleSelectTokenToRevokeResult ==
    \E u \in Users :
    \E answers \in AnswerLists({Answered(SelectionQuestion(
                                            "Which token do you want to revoke?", ""), a) :
                                    a \in SelectionInputs}) :
    \E failAt \in 0..Len(handleSelectTokenToRevokeResult(
                            HandlerRun(u, "handleSelectTokenToRevokeResult", 0, ""),
                            answers).calls) :
        Called(answers, handleSelectTokenToRevokeResult(
                            HandlerRun(u, "handleSelectTokenToRevokeResult", failAt, ""),
                            answers))

NextHandler ==
    \/ CallHandleNewTokenResult
    \/ CallHandleTokenRegenerateResult
    \/ CallHandleSelectTokenToRegenerateResult
    \/ CallHandleSelectTokenToRevokeResult

SpecHandler == InitHandler /\ [][NextHandler]_vars

\* the subject is a call of the handler
CalledHandler(name) == subject # NoSubject /\ subject.handler = name

\* the call changed nothing and called no collaborator
CalledToNoEffect ==
    /\ subject.m.calls = <<>>
    /\ subject.m.stored = subject.stored
    /\ subject.m.ks = subject.ks /\ subject.m.live = subject.live

\* the first 8 characters of a button, "" for a shorter text
ButtonPrefix(b) == IF Len(b) >= 8 THEN SubSeq(b, 1, 8) ELSE ""

CalledExpirationHandler ==
    CalledHandler("handleNewTokenResult") \/ CalledHandler("handleTokenRegenerateResult")

\* C23: in the new-token and in the regenerate handler the expiration
\* answer "1 day" stands for 86400 seconds, "7 days" for 604800, "30 days"
\* for 2592000 and "90 days" for 7776000: these are the seconds the token
\* is generated and the key added with.  Any other answer gets the
\* corrective Response and no provider or repository call; an empty list
\* of answers is an error
C23_ExpirationSeconds ==
    CalledExpirationHandler =>
        LET m == subject.m
            answers == subject.answers
        IN IF answers = <<>>
           THEN m.err # "" /\ m.resp.nil /\ CalledToNoEffect
                /\ parseExpirationAnswer(answers).err # ""
           ELSE LET a == answers[1].Answer
                IN IF ExpectedTTL(a) = -1
                   THEN /\ m.err = ""
                        /\ m.resp = Response("Invalid expiration period selected. Please select one of the available options.", <<>>)
                        /\ CalledToNoEffect
                   ELSE /\ parseExpirationAnswer(answers)
                              = [expiresIn |-> ExpectedTTL(a), err |-> ""]
                        /\ \A i \in 1..Len(m.calls) :
                              m.calls[i].op \in {"prov.GenerateToken", "repo.AddAPIKey"}
                                  => m.calls[i].ttl = ExpectedTTL(a)
                        /\ (m.err = "" /\ ~m.resp.nil) =>
                              \E i, j \in 1..Len(m.calls) :
                                  /\ m.calls[i].op = "prov.GenerateToken"
                                  /\ m.calls[j].op = "repo.AddAPIKey"

\* a token is regenerated for 90 days
C23_Witness ==
    /\ CalledHandler("handleTokenRegenerateResult")
    /\ Len(subject.answers) = 1 /\ subject.answers[1].Answer = "90 days"
    /\ subject.m.err = ""
    /\ \E i \in 1..Len(subject.m.calls) :
          subject.m.calls[i].op = "prov.GenerateToken" /\ subject.m.calls[i].ttl = 7776000

\* C26: the selected button is resolved by comparing its first 8 characters
\* with the first 8 characters of each key id in listing order, and the
\* first key that matches is the one revoked.  When no key matches, or the
\* text is shorter than 8 characters, the resolution fails with KeyNotFound
\* and no key is revoked
C26_FirstMatchingPrefix ==
    (CalledHandler("handleSelectTokenToRevokeResult") /\ Len(subject.answers) = 1) =>
        LET m == subject.m
            b == subject.answers[1].Answer
            ids == [i \in 1..Len(subject.ks) |-> subject.ks[i].KeyID]
            hits == {i \in 1..Len(ids) : DisplayedPrefix(ids[i]) = ButtonPrefix(b)}
        IN IF hits = {}
           THEN /\ resolveKeyIDFromPrefix(ids, b) = [keyID |-> "", err |-> "selected key not found"]
                /\ m.err # "" /\ m.resp.nil
                /\ \A i \in 1..Len(m.calls) : ~IsKeyCall(m.calls[i])
                /\ m.ks = subject.ks /\ m.live = subject.live
                /\ m.failAt = 0 => m.err = "failed to resolve key ID: selected key not found"
           ELSE LET first == ids[CHOOSE i \in hits : \A j \in hits : i <= j]
                IN /\ resolveKeyIDFromPrefix(ids, b) = [keyID |-> first, err |-> ""]
                   /\ \A i \in 1..Len(m.calls) :
                         IsKeyCall(m.calls[i]) => m.calls[i].key = first
                   /\ m.failAt = 0 =>
                         /\ m.err = ""
                         /\ Ops(m) = <<"repo.GetAPIKeys", "prov.RevokeToken", "repo.RevokeToken">>
                         /\ m.live = subject.live \ {first}
                         /\ \A i \in 1..Len(m.ks) : m.ks[i].KeyID # first
                         /\ Len(m.ks) = Len(subject.ks) - 1

\* the button matches the first 8 characters of two of the user's keys, and
\* the one listed first is revoked
C26_Witness ==
    /\ CalledHandler("handleSelectTokenToRevokeResult")
    /\ Len(subject.ks) = 3
    /\ subject.ks[1].KeyID = "abcdefgh01" /\ subject.ks[2].KeyID = "abcdefgh02"
    /\ Len(subject.answers) = 1
    /\ subject.answers[1].Answer = "abcdefgh (exp: 2026-11-04)"
    /\ subject.m.err = ""
    /\ "abcdefgh01" \notin subject.m.live /\ "abcdefgh02" \in subject.m.live

----------------------------------------------------------------------------
(* One leg from Start to Results: a conversation is started with questions *)
(* that carry a field, answered and consumed, and saved to and loaded      *)
(* from the repository at any point in between.  The subject keeps the     *)
(* questions qs, the conversation c in memory, whether c was loaded from   *)
(* the repository since the leg started, and the list r Results returned   *)

\* Yes/No questions carrying no field, a token type, and a key id with and
\* without its type
FieldQuestions ==
    {[YesNoQuestion("Do you want to regenerate it?") EXCEPT !.Field = f] :
        f \in {"", "tcp", "web|abcdefgh01", "abcdefgh01"}}

\* the legs of one question and of two
FieldQuestionLists ==
    {<<q>> : q \in FieldQuestions} \cup {<<p, q>> : p, q \in FieldQuestions}

InitLeg ==
    /\ NoService
    /\ \E qs \in FieldQuestionLists :
          subject = [qs |-> qs, c |-> New("u1"), reloaded |-> FALSE, r |-> <<>>]

LegStart ==
    LET st == Start(subject.c, StateTokenExists, NewQuestions(subject.qs))
    IN /\ st.err = ""
       /\ subject' = [subject EXCEPT !.c = st.c, !.reloaded = FALSE, !.r = <<>>]
       /\ UNCHANGED <<convs, keys, provKeys>>

LegSave ==
    /\ convs' = [convs EXCEPT !["u1"] = SaveConversation(subject.c)]
    /\ UNCHANGED <<keys, provKeys, subject>>

\* reloaded: the conversation loaded is a leg none of whose questions is
\* answered yet
LegLoad ==
    LET c == GetConversation(convs["u1"], "u1")
    IN /\ subject' = [subject EXCEPT
                        !.c = c,
                        !.reloaded = /\ c.State = StateTokenExists
                                     /\ c.Questions.Position = 0]
       /\ UNCHANGED <<convs, keys, provKeys>>

LegSubmit ==
    \E a \in {"Yes", "No", "yes"} :
        /\ subject' = [subject EXCEPT !.c = Submit(subject.c, a).c]
        /\ UNCHANGED <<convs, keys, provKeys>>

LegResults ==
    LET res == Results(subject.c)
    IN /\ res.err = ""
       /\ subject' = [subject EXCEPT !.c = res.c, !.r = res.r]
       /\ UNCHANGED <<convs, keys, provKeys>>

NextLeg == LegStart \/ LegSave \/ LegLoad \/ LegSubmit \/ LegResults

SpecLeg == InitLeg /\ [][NextLeg]_vars

----------------------------------------------------------------------------
(* The encoding of the field on its own: a token type and a key id are     *)
(* encoded and the field is decoded again, and a field written before      *)
(* there were token types, a bare key id, is decoded.  The subject keeps   *)
(* the stage (input, encoded, bare, decoded), the type, the key id, the    *)
(* field and what it was decoded to                                        *)

\* the strings of at most n characters of the alphabet
RECURSIVE Words(_, _)
Words(alphabet, n) ==
    IF n = 0 THEN {""}
    ELSE Words(alphabet, n - 1)
            \cup {w \o c : w \in Words(alphabet, n - 1), c \in alphabet}

\* key ids, some with the separator in them
FieldKeyIDs == Words({"a", "1", "|"}, MaxIDLen) \ {""}

\* fields without separator
BareFields == Words({"a", "1"}, MaxIDLen)

NotDecoded == [Type |-> "", KeyID |-> ""]

InitField ==
    /\ NoService
    /\ \/ \E t \in TokenTypes : \E id \in FieldKeyIDs :
             subject = [stage |-> "input", t |-> t, id |-> id, field |-> "",
                        d |-> NotDecoded]
       \/ \E f \in BareFields :
             subject = [stage |-> "bare", t |-> "", id |-> "", field |-> f,
                        d |-> NotDecoded]

FieldEncode ==
    /\ subject.stage = "input"
    /\ subject' = [subject EXCEPT !.stage = "encoded",
                                  !.field = encodeTokenField(subject.t, subject.id)]
    /\ UNCHANGED <<convs, keys, provKeys>>

FieldDecode ==
    /\ subject.stage \in {"encoded", "bare"}
    /\ subject' = [subject EXCEPT !.stage = "decoded",
                                  !.d = decodeTokenField(subject.field)]
    /\ UNCHANGED <<convs, keys, provKeys>>

NextField == FieldEncode \/ FieldDecode

SpecField == InitField /\ [][NextField]_vars

\* C25: decoding the field a token type of {web, tcp} and a non-empty key
\* id were encoded to gives that type and that key id; decoding a field
\* without the separator "|" gives the type web and the field as key id
C25_FieldRoundTrip ==
    subject.stage = "decoded" =>
        IF subject.t # ""
        THEN subject.d = [Type |-> subject.t, KeyID |-> subject.id]
        ELSE subject.d = [Type |-> "web", KeyID |-> subject.field]

\* a TCP key id with a separator in it went through the round trip
C25_Witness ==
    /\ subject.stage = "decoded"
    /\ subject.t = "tcp" /\ subject.id = "a|1" /\ subject.field = "tcp|a|1"

----------------------------------------------------------------------------
(* The orchestrator calls that start no dialog of their own or none yet    *)

ListHeader(w, t) ==
    "Your Active API Tokens (Web: " \o ToString(w) \o "/3, TCP: " \o ToString(t) \o "/1)\n\n"

C29_ResetAbandonsLeg ==
    \A u \in Users :
        /\ convs[u] = NoConv => GetConversation(convs[u], u) = New(u)
        /\ \A m \in ResetConversationRuns(u) :
            /\ \A i \in 1..Len(m.calls) : m.calls[i].op = "repo.DeleteConversation"
            /\ m.ks = keys[u] /\ m.live = provKeys
            /\ m.err # "" => m.stored = convs[u]
            /\ m.failAt = 0 =>
                  /\ m.err = "" /\ m.resp.nil
                  /\ StoredAfter(m).State = "idle"
                  /\ \A text \in Messages(u) :
                        LET h == HandleMessage(RunIn(StateAfter(m), u, text, 0, "", 1), text)
                        IN h.err # "" /\ h.resp.nil /\ StateAfter(h) = StateAfter(m)
                  /\ LET c == CreateToken(RunIn(StateAfter(m), u, "", 0, "", 1))
                     IN c.err = "" /\ StoredAfter(c).State = "selectTokenType"

\* a user who holds a key abandons a regenerate leg, in which a CreateToken
\* is refused
C29_Witness ==
    \E u \in Users :
        /\ keys[u] # <<>> /\ StoredState(u) = "tokenRegenerate"
        /\ CreateToken(Run(u, "", 0, "", 1)).err # ""
        /\ \E m \in ResetConversationRuns(u) : m.err = "" /\ m.stored = NoConv

----------------------------------------------------------------------------
(* The transport: Service.Run starts one goroutine per update, the        *)
(* middleware registers the request under its chat, Service.Handle calls  *)
(* the orchestrator for the sender of the message.  subject holds the     *)
(* middleware's activeRequests (0: no entry) and the requests, the        *)
(* message id of a request being its place in the list.                   *)

\* the chats a user reaches the bot through: the private chat and a group
\* the bot is a member of (Message.Chat.ID; the sender is Message.From.ID)
Chats == {"private", "group"}

Commands == {"new_token", "cancel"}

InitTransport ==
    /\ NoService
    /\ subject = [activeRequests |-> [chat \in Chats |-> 0], requests |-> <<>>]

\* Service.Run: a goroutine of its own for every update
ServiceRun(chat, from, command) ==
    /\ Len(subject.requests) < MaxRequests
    /\ subject' = [subject EXCEPT !.requests =
                      Append(@, [chat |-> chat, from |-> from, command |-> command,
                                 pc |-> "received", cancelled |-> FALSE,
                                 cleaned |-> FALSE, conv |-> New(from)])]
    /\ UNCHANGED <<convs, keys, provKeys>>

\* the context of the request is done: the timeout of Service.Run
RequestTimeout(i) ==
    /\ subject.requests[i].pc # "done"
    /\ ~subject.requests[i].cancelled
    /\ subject' = [subject EXCEPT !.requests[i].cancelled = TRUE]
    /\ UNCHANGED <<convs, keys, provKeys>>

\* WithRequestReducer registering the request and cancelling none
WithRequestReducerNoCancel(i) ==
    LET r == subject.requests[i]
    IN /\ r.pc = "received"
       /\ subject' = [subject EXCEPT !.activeRequests[r.chat] = i,
                                     !.requests[i].pc = "handle"]
       /\ UNCHANGED <<convs, keys, provKeys>>

\* WithRequestReducer keeping one entry for all chats: it cancels the
\* request registered last, whatever its chat
WithRequestReducerAnyChat(i) ==
    LET r == subject.requests[i]
        existing == {subject.activeRequests[chat] : chat \in DOMAIN subject.activeRequests}
    IN /\ r.pc = "received"
       /\ subject' = [subject EXCEPT
             !.activeRequests = [chat \in DOMAIN @ |-> IF chat = r.chat THEN i ELSE 0],
             !.requests = [j \in 1..Len(@) |->
                 IF j = i THEN [@[j] EXCEPT !.pc = "handle"]
                 ELSE IF j \in existing THEN [@[j] EXCEPT !.cancelled = TRUE]
                 ELSE @[j]]]
       /\ UNCHANGED <<convs, keys, provKeys>>

\* WithRequestReducer, under its mutex: cancel the context of the request
\* registered for the chat, register this one, and go on to the handler
WithRequestReducer(i) ==
    LET r == subject.requests[i]
        existing == subject.activeRequests[r.chat]
    IN /\ r.pc = "received"
       /\ subject' = [subject EXCEPT
             !.activeRequests[r.chat] = i,
             !.requests = [j \in 1..Len(@) |->
                 IF j = i THEN [@[j] EXCEPT !.pc = "handle"]
                 ELSE IF j = existing THEN [@[j] EXCEPT !.cancelled = TRUE]
                 ELSE @[j]]]
       /\ UNCHANGED <<convs, keys, provKeys>>

\* the cleanup removing the entry of the chat whosever it is
ReducerCleanupAnyEntry(i) ==
    LET r == subject.requests[i]
    IN /\ r.pc # "received" /\ r.cancelled /\ ~r.cleaned
       /\ subject' = [subject EXCEPT !.activeRequests[r.chat] = 0,
                                     !.requests[i].cleaned = TRUE]
       /\ UNCHANGED <<convs, keys, provKeys>>

\* the goroutine WithRequestReducer starts: once the context is done it
\* removes the entry of the chat if it is still this request's
ReducerCleanup(i) ==
    LET r == subject.requests[i]
    IN /\ r.pc # "received" /\ r.cancelled /\ ~r.cleaned
       /\ subject' = [subject EXCEPT
             !.activeRequests[r.chat] = IF @ = i THEN 0 ELSE @,
             !.requests[i].cleaned = TRUE]
       /\ UNCHANGED <<convs, keys, provKeys>>

\* Service.Handle, /new_token: CreateToken for the sender loads the
\* conversation; the repository refuses a call under a context that is done
CreateTokenLoad(i) ==
    LET r == subject.requests[i]
    IN /\ r.pc = "handle" /\ r.command = "new_token"
       /\ subject' = [subject EXCEPT !.requests[i] =
             IF r.cancelled THEN [r EXCEPT !.pc = "return"]
             ELSE [r EXCEPT !.pc = "loaded",
                            !.conv = GetConversation(convs[r.from], r.from)]]
       /\ UNCHANGED <<convs, keys, provKeys>>

\* CreateToken starts the leg on the conversation it loaded and saves it
CreateTokenPersist(i) ==
    LET r == subject.requests[i]
        st == Start(r.conv, StateSelectTokenType,
                    NewQuestions(<<[Text |-> "What type of token do you want to create?",
                                    Answers |-> <<"Web", "TCP">>,
                                    Field |-> ""]>>))
    IN /\ r.pc = "loaded"
       /\ subject' = [subject EXCEPT !.requests[i].pc = "return"]
       /\ convs' = IF st.err = "" /\ ~r.cancelled
                   THEN [convs EXCEPT ![r.from] = SaveConversation(st.c)]
                   ELSE convs
       /\ UNCHANGED <<keys, provKeys>>

\* Service.Handle, /cancel: ResetConversation for the sender
HandleCancel(i) ==
    LET r == subject.requests[i]
    IN /\ r.pc = "handle" /\ r.command = "cancel"
       /\ subject' = [subject EXCEPT !.requests[i].pc = "return"]
       /\ convs' = IF r.cancelled THEN convs ELSE [convs EXCEPT ![r.from] = NoConv]
       /\ UNCHANGED <<keys, provKeys>>

\* the handler returns; the deferred cancel of WithRequestReducer runs
HandleReturn(i) ==
    /\ subject.requests[i].pc = "return"
    /\ subject' = [subject EXCEPT !.requests[i].pc = "done",
                                  !.requests[i].cancelled = TRUE]
    /\ UNCHANGED <<convs, keys, provKeys>>

NextTransport ==
    \/ \E chat \in Chats, from \in Users, command \in Commands :
          ServiceRun(chat, from, command)
    \/ \E i \in 1..Len(subject.requests) : RequestTimeout(i)
    \/ \E i \in 1..Len(subject.requests) : WithRequestReducer(i)
    \/ \E i \in 1..Len(subject.requests) : ReducerCleanup(i)
    \/ \E i \in 1..Len(subject.requests) : CreateTokenLoad(i)
    \/ \E i \in 1..Len(subject.requests) : CreateTokenPersist(i)
    \/ \E i \in 1..Len(subject.requests) : HandleCancel(i)
    \/ \E i \in 1..Len(subject.requests) : HandleReturn(i)

SpecTransport == InitTransport /\ [][NextTransport]_vars

\* the requests whose orchestrator call holds the conversation it loaded
\* and has not persisted it yet
InOrchestrator(u) ==
    {i \in 1..Len(subject.requests) :
        subject.requests[i].from = u /\ subject.requests[i].pc = "loaded"}

\* C30: at most one orchestrator call per user is in progress at any time
C30_OneCallPerUser ==
    \A u \in Users : Cardinality(InOrchestrator(u)) <= 1

\* the requests of a chat that the middleware has registered and whose
\* handler has not returned
Registered(chat) ==
    {i \in 1..Len(subject.requests) :
        /\ subject.requests[i].chat = chat
        /\ subject.requests[i].pc \in {"handle", "loaded", "return"}}

Uncancelled(chat) == {i \in Registered(chat) : ~subject.requests[i].cancelled}

\* C31: only the latest request of a chat is processed: once a request of
\* the chat is registered, every request of the chat registered before it
\* has a cancelled context, and at any time at most one registered request
\* of a chat has an un-cancelled context
C31_LatestRequestOnly ==
    \A chat \in Chats :
        /\ Cardinality(Uncancelled(chat)) <= 1
        /\ \A i \in Registered(chat) :
              subject.activeRequests[chat] # i => subject.requests[i].cancelled

\* the handler of a request runs while an earlier request of the chat, its
\* context cancelled, has not returned yet
C31_Witness ==
    /\ Len(subject.requests) >= 2
    /\ subject.requests[1].chat = subject.requests[2].chat
    /\ subject.requests[1].pc = "loaded" /\ subject.requests[1].cancelled
    /\ subject.requests[2].pc = "handle" /\ ~subject.requests[2].cancelled
    /\ subject.activeRequests[subject.requests[2].chat] = 2

\* C32: the step that registers a request leaves the context of every
\* request of another chat as it is
C32_OtherChatsUntouched ==
    [][\A j \in 1..Len(subject.requests) :
          (subject.requests[j].pc = "received" /\ subject'.requests[j].pc = "handle") =>
              \A i \in 1..Len(subject.requests) :
                  subject.requests[i].chat # subject.requests[j].chat =>
                      /\ subject'.requests[i].cancelled = subject.requests[i].cancelled
                      /\ subject'.activeRequests[subject.requests[i].chat]
                            = subject.activeRequests[subject.requests[i].chat]]_vars

\* a request of one chat has saved its conversation with an un-cancelled
\* context although a request of the other chat was registered after it
C32_Witness ==
    /\ Len(subject.requests) >= 2
    /\ subject.requests[1].chat # subject.requests[2].chat
    /\ subject.requests[1].pc = "return" /\ ~subject.requests[1].cancelled
    /\ subject.requests[2].pc = "loaded" /\ ~subject.requests[2].cancelled
    /\ convs[subject.requests[1].from] # NoConv
    /\ subject.activeRequests[subject.requests[1].chat] = 1
    /\ subject.activeRequests[subject.requests[2].chat] = 2

\* C33: a registered request with an un-cancelled context still has its
\* entry (no cleanup of another request removed it), the entry of a chat
\* is that of a request of the chat that has not been cleaned up, and once
\* every request of a chat has returned and been cleaned up the chat has
\* no entry
C33_CleanupRemovesOwnEntry ==
    \A chat \in Chats :
        LET ofChat == {i \in 1..Len(subject.requests) : subject.requests[i].chat = chat}
            entry == subject.activeRequests[chat]
        IN /\ \A i \in Uncancelled(chat) : entry = i
           /\ entry # 0 =>
                 /\ entry \in ofChat
                 /\ subject.requests[entry].pc # "received"
                 /\ ~subject.requests[entry].cleaned
           /\ (\A i \in ofChat : subject.requests[i].pc = "done" /\ subject.requests[i].cleaned)
                 => entry = 0

\* the first request of a chat has returned and been cleaned up after the
\* second was registered, and the second, still running, has its entry
C33_Witness ==
    /\ Len(subject.requests) >= 2
    /\ subject.requests[1].chat = subject.requests[2].chat
    /\ subject.requests[1].pc = "done" /\ subject.requests[1].cleaned
    /\ subject.requests[2].pc = "loaded" /\ ~subject.requests[2].cancelled
    /\ subject.activeRequests[subject.requests[2].chat] = 2

----------------------------------------------------------------------------
(* What is left of a leg after it was completed *)

\* the run handed the answers of a completed leg to a completion handler
CompletedLeg(m) == m.handler # ""

\* the run of the same message delivered once more after the run m
Redelivered(m) == HandleMessage(RunIn(StateAfter(m), m.u, m.message, 0, m.issue, 1), m.message)

NoKeyCall(m) == \A i \in 1..Len(m.calls) : ~IsKeyCall(m.calls[i])

\* C34: after a HandleMessage call has completed a leg, the same answer
\* delivered again is refused with an error and no Response, makes no
\* provider.GenerateToken, provider.RevokeToken or repository key call and
\* leaves conversation, keys and provider as the first call left them
C34_LegConsumedOnce ==
    \A u \in Users : StoredState(u) \notin {"idle", "complete"} =>
        \A m \in HandleMessageRuns(u) :
            CompletedLeg(m) =>
                LET h == Redelivered(m)
                IN /\ h.err # "" /\ h.resp.nil
                   /\ h.handler = ""
                   /\ NoKeyCall(h)
                   /\ StateAfter(h) = StateAfter(m)

\* an expiration answer generated a key and left the conversation Idle
C34_Witness ==
    \E u \in Users : \E m \in HandleMessageRuns(u) :
        /\ m.handler = "handleNewTokenResult" /\ m.err = ""
        /\ Len(m.ks) = Len(keys[u]) + 1
        /\ StoredAfter(m).State = "idle"
        /\ Redelivered(m).err # ""

\* C35: when a completion handler fails with an error, the stored
\* conversation is Idle: the same answer delivered
\* again is refused and makes no key call, CreateToken starts the
\* select-type leg, and RevokeToken is not refused for a leg in flight
C35_FailedHandlerLeavesIdle ==
    \A u \in Users : StoredState(u) \notin {"idle", "complete"} =>
        \A m \in HandleMessageRuns(u) :
            (CompletedLeg(m) /\ m.err # "") =>
                LET h == Redelivered(m)
                    c == CreateToken(RunIn(StateAfter(m), u, "", 0, "", 1))
                    r == RevokeToken(RunIn(StateAfter(m), u, "", 0, "", 1))
                IN /\ m.resp.nil
                   /\ StoredAfter(m).State = "idle"
                   /\ h.err # "" /\ NoKeyCall(h) /\ StateAfter(h) = StateAfter(m)
                   /\ c.err = "" /\ StoredAfter(c).State = "selectTokenType"
                   /\ r.err \in {"", ErrTokenNotFound}
                   /\ Len(m.ks) >= 2 => StoredAfter(r).State = "selectTokenToRevoke"

\* provider.RevokeToken fails during a regenerate
C35_Witness ==
    \E u \in Users : \E m \in HandleMessageRuns(u) :
        /\ m.handler = "handleTokenRegenerateResult" /\ m.err # ""
        /\ Len(m.calls) = 3 /\ m.calls[3].op = "prov.RevokeToken" /\ ~m.calls[3].ok
        /\ StoredState(u) = "tokenRegenerate" /\ StoredAfter(m).State = "idle"
        /\ CreateToken(RunIn(StateAfter(m), u, "", 0, "", 1)).err = ""

\* C36: while a leg is in flight CreateToken, and RevokeToken for a user
\* with two or more keys, return an error and no Response, make no key
\* call and leave the stored conversation, the keys and the provider as
\* they are
C36_NoLegOverLeg ==
    \A u \in Users : StoredState(u) \notin {"idle", "complete"} =>
        /\ \A m \in CreateTokenRuns(u) :
              /\ m.err # "" /\ m.resp.nil /\ NoKeyCall(m)
              /\ m.stored = convs[u] /\ m.ks = keys[u] /\ m.live = provKeys
        /\ Len(keys[u]) >= 2 =>
              \A m \in RevokeTokenRuns(u) :
                  /\ m.err # "" /\ m.resp.nil /\ NoKeyCall(m)
                  /\ m.stored = convs[u] /\ m.ks = keys[u] /\ m.live = provKeys

\* a user with two keys is refused both while an expiration question is
\* in front of them, and the answer to that question still completes the leg
C36_Witness ==
    \E u \in Users :
        /\ StoredState(u) = "newToken" /\ Len(keys[u]) = 2
        /\ \E m \in CreateTokenRuns(u) : m.failAt = 0 /\ m.err # ""
        /\ \E m \in RevokeTokenRuns(u) : m.failAt = 0 /\ m.err # ""
        /\ \E m \in HandleMessageRuns(u) :
              m.handler = "handleNewTokenResult" /\ m.err = "" /\ Len(m.ks) = 3

\* C37: every leg in flight has exactly one question, the question offers
\* at least one answer, and one of its answers completes the leg
C37_NoDeadEnd ==
    \A u \in Users : StoredState(u) \notin {"idle", "complete"} =>
        LET c == GetConversation(convs[u], u)
        IN /\ Len(c.Questions.QAPairs) = 1
           /\ Len(c.Questions.QAPairs[1].Question.Answers) >= 1
           /\ \E i \in 1..Len(c.Questions.QAPairs[1].Question.Answers) :
                 CompletedLeg(HandleMessage(
                     Run(u, c.Questions.QAPairs[1].Question.Answers[i], 0, "", 1),
                     c.Questions.QAPairs[1].Question.Answers[i]))

----------------------------------------------------------------------------
(* The selection buttons on their own: buildTokenSelectionQuestion builds  *)
(* the buttons of a key list, resolveKeyIDFromPrefix resolves one of them  *)
(* against the ids of the same list.  subject holds the list, the buttons  *)
(* and the button picked with what it resolved to.                         *)

\* key ids as a provider may issue them: longer than the displayed prefix,
\* as long as it, and shorter
SelectionIDs == {"abcdefgh01", "abcdefgh02", "zyxwvuts03", "abcdefgh", "abcdefg", "abc"}

SelectionKeys ==
    {[KeyID |-> id, Type |-> TokenTypeWeb, ExpiresAt |-> expiresAt(secondsInDay)] :
        id \in SelectionIDs}

\* the lists of keys with different ids
SelectionLists ==
    {ks \in UNION {[1..n -> SelectionKeys] : n \in 0..MaxSelectionKeys} :
        \A i, j \in 1..Len(ks) : i # j => ks[i].KeyID # ks[j].KeyID}

InitSelection ==
    /\ NoService
    /\ \E ks \in SelectionLists :
          subject = [ks |-> ks, built |-> FALSE, buttons |-> <<>>, picked |-> 0,
                     resolved |-> [keyID |-> "", err |-> ""]]

SelectionBuild ==
    /\ ~subject.built
    /\ subject' = [subject EXCEPT
          !.built = TRUE,
          !.buttons = buildTokenSelectionQuestion(subject.ks, "Pick one").Answers]
    /\ UNCHANGED <<convs, keys, provKeys>>

SelectionResolve ==
    /\ subject.built
    /\ \E i \in 1..Len(subject.buttons) :
          subject' = [subject EXCEPT
              !.picked = i,
              !.resolved = resolveKeyIDFromPrefix(GetAPIKeys(subject.ks),
                                                  subject.buttons[i])]
    /\ UNCHANGED <<convs, keys, provKeys>>

NextSelection == SelectionBuild \/ SelectionResolve

SpecSelection == InitSelection /\ [][NextSelection]_vars

\* the prefix a key is displayed with
Displayed(k) ==
    IF Len(k.KeyID) > keyIDDisplayLen THEN Prefix(k.KeyID, keyIDDisplayLen) ELSE k.KeyID

\* C38: in a key list whose displayed prefixes are pairwise distinct the
\* button built for a key resolves to that key, whatever the length of
\* its id
C38_SelectionRoundTrip ==
    (/\ subject.picked # 0
     /\ \A i, j \in 1..Len(subject.ks) :
           i # j => Displayed(subject.ks[i]) # Displayed(subject.ks[j])) =>
        /\ subject.resolved.err = ""
        /\ subject.resolved.keyID = subject.ks[subject.picked].KeyID

----------------------------------------------------------------------------
(* Keys across a regenerate and across calls that succeed *)

KeyIDs(ks) == {ks[i].KeyID : i \in 1..Len(ks)}

\* the keys of a list other than the key with this id
OtherKeys(ks, keyID) == {ks[i] : i \in {j \in 1..Len(ks) : ks[j].KeyID # keyID}}

\* C39: a regenerate that succeeds revokes the key whose id the leg
\* carries in its field and asks GenerateToken for that same id; it
\* removes exactly one key and adds exactly one, so the user holds as many
\* keys of the type afterwards as before, under the same ids, and every
\* other key is as it was
C39_RegenerateInPlace ==
    \A u \in Users : StoredState(u) = "tokenRegenerate" =>
        \A m \in HandleMessageRuns(u) :
            (m.handler = "handleTokenRegenerateResult" /\ m.err = ""
             /\ Len(m.calls) = 6) =>
                LET d == decodeTokenField(StoredQA(u).Field)
                IN /\ \A i \in 3..6 : m.calls[i].key = d.KeyID
                   /\ Ops(m)[3] = "prov.RevokeToken" /\ Ops(m)[5] = "prov.GenerateToken"
                   /\ d.KeyID \in KeyIDs(keys[u])
                   /\ Len(m.ks) = Len(keys[u])
                   /\ KeyCount(m.ks, d.Type) = KeyCount(keys[u], d.Type)
                   /\ KeyIDs(m.ks) = KeyIDs(keys[u])
                   /\ OtherKeys(m.ks, d.KeyID) = OtherKeys(keys[u], d.KeyID)

\* the orchestrator calls that return without error, the clock standing
\* still: no key expires
CreateTokenOk(u) == \E m \in CreateTokenRuns(u) : m.err = "" /\ Finish(m)

HandleMessageOk(u) == \E m \in HandleMessageRuns(u) : m.err = "" /\ Finish(m)

RevokeTokenOk(u) == \E m \in RevokeTokenRuns(u) : m.err = "" /\ Finish(m)

ListTokensOk(u) == \E m \in ListTokensRuns(u) : m.err = "" /\ Finish(m)

ResetConversationOk(u) == \E m \in ResetConversationRuns(u) : m.err = "" /\ Finish(m)

NextSuccess ==
    \/ \E u \in Users : CreateTokenOk(u)
    \/ \E u \in Users : HandleMessageOk(u)
    \/ \E u \in Users : RevokeTokenOk(u)
    \/ \E u \in Users : ListTokensOk(u)
    \/ \E u \in Users : ResetConversationOk(u)

SpecSuccess == Init /\ [][NextSuccess]_vars

\* C40: after orchestrator calls that all returned without error the key
\* ids live at the provider are the key ids the repository records
C40_ProviderAgreesWithRepository ==
    provKeys = UNION {KeyIDs(keys[u]) : u \in Users}

\* a user holding three keys, all live at the provider, revokes one
\* through the selection
C40_Witness ==
    \E u \in Users :
        /\ Len(keys[u]) = 3 /\ provKeys = KeyIDs(keys[u])
        /\ \E m \in HandleMessageRuns(u) :
              /\ m.handler = "handleSelectTokenToRevokeResult" /\ m.err = ""
              /\ Len(m.ks) = 2 /\ m.live = KeyIDs(m.ks)

====
